---------------------------- MODULE Spec2Model ----------------------------
(***************************************************************************)
(* Commerce and fulfillment core of the white-label course platform        *)
(* (src/src/app.js): schools, course pipeline, orders, demo checkout,      *)
(* idempotent webhook processing and enrollment, over the in-memory store. *)
(*                                                                         *)
(* Conventions.  generateId(prefix) draws 8 random bytes: every Map that   *)
(* is keyed by a generated id and never deleted from is a sequence, the    *)
(* n-th generated id being n.  The empty string / undefined id is 0, an    *)
(* id that exists nowhere is NoSuchId.  null is the empty sequence and a   *)
(* present object x is <<x>> where a field may hold either.  Every         *)
(* exported function runs to completion, so each is one action; a thrown   *)
(* Error is the named code in last.err with the store as the code left it. *)
(***************************************************************************)
EXTENDS Integers, Sequences, FiniteSets, Bags, TLC

\* ------------------------------------------------------------------ bounds
MaxSchools == 2
MaxCourses == 3
MaxOrders == 2
MaxPayments == 2
MaxStatusChanges == 1
MaxRotations == 1
MaxTime == 3
MaxDomainRequests == 2
MaxRevisions == 4
MaxEffects == 2
MaxVerifications == 2
MaxSuspensions == 2

NoSuchId == 99
None == <<>>
Some(x) == <<x>>

\* ------------------------------------------------------------------ state
VARIABLES
    schools,          \* db.schools: id -> [name, slug, status]
    domains,          \* db.domains: id -> domainConfig
    domainIndex,      \* domainIndex: [byCustomDomain: domain -> domainId, bySubdomain: host -> schoolId]
    gateway,          \* db.gateway: schoolId -> [provider, webhookSecret]
    courses,          \* db.courses: id -> course
    courseIndex,      \* courseIndex.bySchool: schoolId -> Set(courseId)
    orders,           \* db.orders: id -> order
    orderIndex,       \* orderIndex: [bySchool, byBuyer, byCourse], each key -> Set(orderId)
    payments,         \* db.payments: id -> payment
    webhookEvents,    \* db.webhookEvents: eventId -> event
    enrollments,      \* db.enrollments: id -> enrollment
    enrollmentIndex,  \* enrollmentIndex.bySchoolBuyerCourse: key -> enrollmentId
    audit,            \* db.audit: the bag of audit events
    rnd,              \* number of tokens drawn from randomToken so far
    now,              \* the wall clock read by nowIso()
    sent,             \* the {payload, signature} pairs startDemoCheckout returned
    last              \* the last call: operation, error thrown, value returned

vars == <<schools, domains, domainIndex, gateway, courses, courseIndex, orders, orderIndex,
          payments, webhookEvents, enrollments, enrollmentIndex, audit, rnd, now, sent, last>>

\* The store: everything the program keeps between calls.
Store ==
    [schools |-> schools, domains |-> domains, domainIndex |-> domainIndex,
     gateway |-> gateway, courses |-> courses, courseIndex |-> courseIndex,
     orders |-> orders, orderIndex |-> orderIndex, payments |-> payments, webhookEvents |-> webhookEvents,
     enrollments |-> enrollments, enrollmentIndex |-> enrollmentIndex,
     audit |-> audit, rnd |-> rnd]

\* The outcome of a call on store S: the store it leaves, what it threw, what it returned.
Ok(S, r) == [db |-> S, err |-> "", ret |-> r]
Throw(S, e) == [db |-> S, err |-> e, ret |-> None]

\* ------------------------------------------------------------------ utils
\* String(x || "").trim() on the strings the model feeds in.
Trim(s) ==
    CASE s = " " -> ""
      [] s = " DEMO " -> "DEMO"
      [] OTHER -> s

\* toLowerCase() on the strings the model feeds in.
ToLowerCase(s) ==
    CASE s = "ALPHA" -> "alpha"
      [] s = "A@B.COM" -> "a@b.com"
      [] OTHER -> s

\* toUpperCase() on the strings the model feeds in.
ToUpperCase(s) ==
    CASE s = "demo" -> "DEMO"
      [] s = "approved" -> "APPROVED"
      [] s = "declined" -> "DECLINED"
      [] s = "refunded" -> "REFUNDED"
      [] OTHER -> s

\* hmacSha256(secret, message): a keyed hash, taken to be collision free.
hmacSha256(secret, message) == <<"hmac", secret, message>>

\* Object.keys(obj).sort() over the keys a webhook payload may carry.
KeyOrder ==
    <<"eventId", "extra", "orderId", "paymentId", "provider", "result", "schoolId", "ts">>

\* A serialization that leaves the result out of what is signed.
stableStringifyNoResult(obj) ==
    LET present == SelectSeq(KeyOrder, LAMBDA k : k \in DOMAIN obj /\ k # "result")
    IN  [i \in 1..Len(present) |-> <<present[i], obj[present[i]]>>]

\* stableStringify(obj): the members of obj, keys ascending, as "key":value pairs.
stableStringify(obj) ==
    LET present == SelectSeq(KeyOrder, LAMBDA k : k \in DOMAIN obj)
    IN  [i \in 1..Len(present) |-> <<present[i], obj[present[i]]>>]

\* The value undefined as a member of a payload; of the members a sender
\* sets, only "extra" is ever given it.  JSON.stringify(undefined) is not a
\* string, so the member's text is the bare word undefined.
Undefined == -1

\* The error JSON.parse throws on a stableStringify text, "" when it parses:
\* the bare word undefined is not JSON.
JsonParseError(text) ==
    IF \E i \in 1..Len(text) : text[i][1] = "extra" /\ text[i][2] = Undefined
    THEN "SyntaxError" ELSE ""

\* A parse that loses the member ts.
JsonParseWithoutTs(text) ==
    [k \in {text[i][1] : i \in 1..Len(text)} \ {"ts"} |->
        text[CHOOSE i \in 1..Len(text) : text[i][1] = k][2]]

\* JSON.parse of a stableStringify text: the object with those members.
JsonParse(text) ==
    [k \in {text[i][1] : i \in 1..Len(text)} |->
        text[CHOOSE i \in 1..Len(text) : text[i][1] = k][2]]

\* payload?.field, undefined (0 or "") when the member is absent.
Field(payload, k, undef) == IF k \in DOMAIN payload THEN payload[k] ELSE undef

\* ------------------------------------------------------------------ audit
\* db.audit is keyed by a random id and read back sorted by time, never in
\* insertion order: it is the bag of the events logged.
\* A log that holds the last event only.
auditLogLatestOnly(S, schoolId, action, payload) ==
    [S EXCEPT !.audit = SetToBag({<<action, schoolId, payload>>})]

auditLog(S, schoolId, action, payload) ==
    [S EXCEPT !.audit = @ (+) SetToBag({<<action, schoolId, payload>>})]

\* The number of events logged with this action tag.
CountAudit(S, action) ==
    BagCardinality([e \in {x \in BagToSet(S.audit) : x[1] = action} |-> S.audit[e]])


\* ------------------------------------------------------------------ schools
EmptyMap == [x \in {} |-> 0]
Put(m, k, v) == [x \in DOMAIN m \cup {k} |-> IF x = k THEN v ELSE m[x]]

\* /^[a-z0-9-]+$/ on the slugs the model feeds in.
SlugPattern(s) == s \in {"alpha", "beta"}

\* `${slug}.${PLATFORM.baseDomain}`
SubdomainHost(slug) ==
    CASE slug = "alpha" -> "alpha.platform.local"
      [] slug = "beta" -> "beta.platform.local"
      [] OTHER -> "platform.local"

ensureDefaultSubdomainForSchool(S, schoolId) ==
    IF schoolId \notin DOMAIN S.schools THEN Throw(S, "SCHOOL_NOT_FOUND")
    ELSE
    LET host == SubdomainHost(S.schools[schoolId].slug)
        bySub == S.domainIndex.bySubdomain
    IN  IF host \in DOMAIN bySub /\ bySub[host] # schoolId
        THEN Throw(S, "SUBDOMAIN_COLLISION")
        ELSE
        LET S1 == [S EXCEPT !.domainIndex.bySubdomain = Put(@, host, schoolId)]
            already == {d \in DOMAIN S1.domains :
                           S1.domains[d].type = "subdomain" /\ S1.domains[d].schoolId = schoolId}
            cfg == [id |-> Len(S1.domains) + 1, schoolId |-> schoolId, type |-> "subdomain",
                    domain |-> host, verified |-> TRUE, verificationToken |-> 0]
        IN  IF already # {} THEN Ok(S1, S1.domains[CHOOSE d \in already : TRUE])
            ELSE Ok(auditLog([S1 EXCEPT !.domains = Append(@, cfg)],
                             schoolId, "DOMAIN_SUBDOMAIN_CREATED", <<host>>), cfg)

\* A createSchool that does not look for the slug among the schools.
createSchoolAnySlug(S, name, slug) ==
    LET n == Trim(name)
        s == ToLowerCase(Trim(slug))
    IN  IF n = "" THEN Throw(S, "SCHOOL_NAME_REQUIRED")
        ELSE IF s = "" THEN Throw(S, "SCHOOL_SLUG_REQUIRED")
        ELSE IF ~SlugPattern(s) THEN Throw(S, "SCHOOL_SLUG_INVALID")
        ELSE
        LET id == Len(S.schools) + 1
            school == [id |-> id, name |-> n, slug |-> s, status |-> "ACTIVE"]
            S1 == [S EXCEPT !.schools = Append(@, school)]
            sub == ensureDefaultSubdomainForSchool(S1, id)
        IN  IF sub.err # "" THEN sub
            ELSE
            LET S2 == [sub.db EXCEPT
                          !.gateway = Put(@, id, [provider |-> "DEMO", webhookSecret |-> sub.db.rnd + 1]),
                          !.rnd = @ + 1,
                          !.courseIndex = Put(@, id, {}),
                          !.orderIndex.bySchool = Put(@, id, {})]
            IN  Ok(auditLog(S2, id, "SCHOOL_CREATED", <<n, s>>), school)

createSchool(S, name, slug) ==
    LET n == Trim(name)
        s == ToLowerCase(Trim(slug))
    IN  IF n = "" THEN Throw(S, "SCHOOL_NAME_REQUIRED")
        ELSE IF s = "" THEN Throw(S, "SCHOOL_SLUG_REQUIRED")
        ELSE IF ~SlugPattern(s) THEN Throw(S, "SCHOOL_SLUG_INVALID")
        ELSE IF \E i \in DOMAIN S.schools : S.schools[i].slug = s
             THEN Throw(S, "SCHOOL_SLUG_ALREADY_EXISTS")
        ELSE
        LET id == Len(S.schools) + 1
            school == [id |-> id, name |-> n, slug |-> s, status |-> "ACTIVE"]
            S1 == [S EXCEPT !.schools = Append(@, school)]
            sub == ensureDefaultSubdomainForSchool(S1, id)
        IN  IF sub.err # "" THEN sub
            ELSE
            LET S2 == [sub.db EXCEPT
                          !.gateway = Put(@, id, [provider |-> "DEMO", webhookSecret |-> sub.db.rnd + 1]),
                          !.rnd = @ + 1,
                          !.courseIndex = Put(@, id, {}),
                          !.orderIndex.bySchool = Put(@, id, {})]
            IN  Ok(auditLog(S2, id, "SCHOOL_CREATED", <<n, s>>), school)

\* A status change that takes a suspended school's custom domains out of service.
setSchoolStatusUnverifying(S, schoolId, status) ==
    IF schoolId \notin DOMAIN S.schools THEN Throw(S, "SCHOOL_NOT_FOUND")
    ELSE IF status \notin {"ACTIVE", "SUSPENDED"} THEN Throw(S, "SCHOOL_STATUS_INVALID")
    ELSE LET S1 == [S EXCEPT !.schools[schoolId].status = status,
                             !.domains = [i \in DOMAIN @ |->
                                             IF @[i].schoolId = schoolId /\ @[i].type = "custom"
                                                /\ status = "SUSPENDED"
                                             THEN [@[i] EXCEPT !.verified = FALSE] ELSE @[i]]]
         IN  Ok(auditLog(S1, schoolId, "SCHOOL_STATUS_CHANGED", <<status>>), S1.schools[schoolId])

setSchoolStatus(S, schoolId, status) ==
    IF schoolId \notin DOMAIN S.schools THEN Throw(S, "SCHOOL_NOT_FOUND")
    ELSE IF status \notin {"ACTIVE", "SUSPENDED"} THEN Throw(S, "SCHOOL_STATUS_INVALID")
    ELSE LET S1 == [S EXCEPT !.schools[schoolId].status = status]
         IN  Ok(auditLog(S1, schoolId, "SCHOOL_STATUS_CHANGED", <<status>>), S1.schools[schoolId])

\* The error assertSchoolActive throws, "" when it returns.
assertSchoolActive(S, schoolId) ==
    IF schoolId \notin DOMAIN S.schools THEN "SCHOOL_NOT_FOUND"
    ELSE IF S.schools[schoolId].status # "ACTIVE" THEN "SCHOOL_SUSPENDED"
    ELSE ""

\* A rotation that logs itself and leaves the secret as it was.
rotateWebhookSecretKeeping(S, schoolId) ==
    IF assertSchoolActive(S, schoolId) # "" THEN Throw(S, assertSchoolActive(S, schoolId))
    ELSE IF schoolId \notin DOMAIN S.gateway THEN Throw(S, "GATEWAY_NOT_CONFIGURED")
    ELSE Ok(auditLog([S EXCEPT !.rnd = @ + 1], schoolId, "GATEWAY_WEBHOOK_SECRET_ROTATED", <<>>),
            S.gateway[schoolId])

\* A rotation that does not ask whether the school is active.
rotateWebhookSecretWhileSuspended(S, schoolId) ==
    IF schoolId \notin DOMAIN S.schools THEN Throw(S, "SCHOOL_NOT_FOUND")
    ELSE IF schoolId \notin DOMAIN S.gateway THEN Throw(S, "GATEWAY_NOT_CONFIGURED")
    ELSE LET S1 == [S EXCEPT !.gateway[schoolId].webhookSecret = S.rnd + 1, !.rnd = @ + 1]
         IN  Ok(auditLog(S1, schoolId, "GATEWAY_WEBHOOK_SECRET_ROTATED", <<>>), S1.gateway[schoolId])

rotateWebhookSecret(S, schoolId) ==
    IF assertSchoolActive(S, schoolId) # "" THEN Throw(S, assertSchoolActive(S, schoolId))
    ELSE IF schoolId \notin DOMAIN S.gateway THEN Throw(S, "GATEWAY_NOT_CONFIGURED")
    ELSE LET S1 == [S EXCEPT !.gateway[schoolId].webhookSecret = S.rnd + 1, !.rnd = @ + 1]
         IN  Ok(auditLog(S1, schoolId, "GATEWAY_WEBHOOK_SECRET_ROTATED", <<>>), S1.gateway[schoolId])

\* ------------------------------------------------------------------ custom domains
\* normalizeDomain on the values the model feeds in: trimmed, lower-cased,
\* scheme, path, port and trailing dot removed.
normalizeDomain(domain) ==
    CASE domain = "https://Cursos.Alpha.com.br:443/loja" -> "cursos.alpha.com.br"
      [] domain = " " -> ""
      [] OTHER -> domain

\* normalizeHost on the values the model feeds in: trimmed, lower-cased, trailing dot removed.
normalizeHost(host) ==
    CASE host = "Cursos.Alpha.com.br." -> "cursos.alpha.com.br"
      [] host = "ALPHA.platform.local" -> "alpha.platform.local"
      [] OTHER -> host

\* isValidDomainLike: non-empty, no space, has a dot, at least 4 characters.
isValidDomainLike(value) ==
    normalizeDomain(value) \notin {"", "localhost", "a b.com", "a.b"}

\* d.endsWith(`.${PLATFORM.baseDomain}`)
UnderBaseDomain(d) == d \in {"alpha.platform.local", "beta.platform.local", "loja.platform.local"}

\* A request that accepts a name under the platform's base domain.
requestCustomDomainAnywhere(S, schoolId, domain) ==
    LET d == normalizeDomain(domain)
        byCustom == S.domainIndex.byCustomDomain
        existing == {i \in DOMAIN S.domains :
                        /\ S.domains[i].type = "custom"
                        /\ S.domains[i].schoolId = schoolId
                        /\ S.domains[i].domain = d}
        token == S.rnd + 1
    IN  IF assertSchoolActive(S, schoolId) # "" THEN Throw(S, assertSchoolActive(S, schoolId))
        ELSE IF ~isValidDomainLike(d) THEN Throw(S, "CUSTOM_DOMAIN_INVALID")
        ELSE IF d \in DOMAIN byCustom /\ byCustom[d] \in DOMAIN S.domains
                /\ S.domains[byCustom[d]].schoolId # schoolId
             THEN Throw(S, "CUSTOM_DOMAIN_ALREADY_IN_USE")
        ELSE IF existing # {}
             THEN LET i == CHOOSE x \in existing : \A y \in existing : x <= y
                      S1 == [S EXCEPT !.domains[i].verified = FALSE,
                                      !.domains[i].verificationToken = token,
                                      !.domainIndex.byCustomDomain = Put(@, d, i),
                                      !.rnd = @ + 1]
                  IN  Ok(auditLog(S1, schoolId, "DOMAIN_CUSTOM_REREQUESTED", <<d>>), S1.domains[i])
        ELSE LET id == Len(S.domains) + 1
                 cfg == [id |-> id, schoolId |-> schoolId, type |-> "custom", domain |-> d,
                         verified |-> FALSE, verificationToken |-> token]
                 S1 == [S EXCEPT !.domains = Append(@, cfg),
                                 !.domainIndex.byCustomDomain = Put(@, d, id),
                                 !.rnd = @ + 1]
             IN  Ok(auditLog(S1, schoolId, "DOMAIN_CUSTOM_REQUESTED", <<d>>), cfg)

\* A request that does not look at who holds the domain.
requestCustomDomainShared(S, schoolId, domain) ==
    LET d == normalizeDomain(domain)
        byCustom == S.domainIndex.byCustomDomain
        existing == {i \in DOMAIN S.domains :
                        /\ S.domains[i].type = "custom"
                        /\ S.domains[i].schoolId = schoolId
                        /\ S.domains[i].domain = d}
        token == S.rnd + 1
    IN  IF assertSchoolActive(S, schoolId) # "" THEN Throw(S, assertSchoolActive(S, schoolId))
        ELSE IF ~isValidDomainLike(d) THEN Throw(S, "CUSTOM_DOMAIN_INVALID")
        ELSE IF UnderBaseDomain(d) THEN Throw(S, "CUSTOM_DOMAIN_NOT_ALLOWED")
        ELSE IF existing # {}
             THEN LET i == CHOOSE x \in existing : \A y \in existing : x <= y
                      S1 == [S EXCEPT !.domains[i].verified = FALSE,
                                      !.domains[i].verificationToken = token,
                                      !.domainIndex.byCustomDomain = Put(@, d, i),
                                      !.rnd = @ + 1]
                  IN  Ok(auditLog(S1, schoolId, "DOMAIN_CUSTOM_REREQUESTED", <<d>>), S1.domains[i])
        ELSE LET id == Len(S.domains) + 1
                 cfg == [id |-> id, schoolId |-> schoolId, type |-> "custom", domain |-> d,
                         verified |-> FALSE, verificationToken |-> token]
                 S1 == [S EXCEPT !.domains = Append(@, cfg),
                                 !.domainIndex.byCustomDomain = Put(@, d, id),
                                 !.rnd = @ + 1]
             IN  Ok(auditLog(S1, schoolId, "DOMAIN_CUSTOM_REQUESTED", <<d>>), cfg)

\* A request that, made again, leaves the record's token as it was.
requestCustomDomainSameToken(S, schoolId, domain) ==
    LET d == normalizeDomain(domain)
        byCustom == S.domainIndex.byCustomDomain
        existing == {i \in DOMAIN S.domains :
                        /\ S.domains[i].type = "custom"
                        /\ S.domains[i].schoolId = schoolId
                        /\ S.domains[i].domain = d}
        token == S.rnd + 1
    IN  IF assertSchoolActive(S, schoolId) # "" THEN Throw(S, assertSchoolActive(S, schoolId))
        ELSE IF ~isValidDomainLike(d) THEN Throw(S, "CUSTOM_DOMAIN_INVALID")
        ELSE IF UnderBaseDomain(d) THEN Throw(S, "CUSTOM_DOMAIN_NOT_ALLOWED")
        ELSE IF d \in DOMAIN byCustom /\ byCustom[d] \in DOMAIN S.domains
                /\ S.domains[byCustom[d]].schoolId # schoolId
             THEN Throw(S, "CUSTOM_DOMAIN_ALREADY_IN_USE")
        ELSE IF existing # {}
             THEN LET i == CHOOSE x \in existing : \A y \in existing : x <= y
                      S1 == [S EXCEPT !.domains[i].verified = FALSE,
                                      !.domainIndex.byCustomDomain = Put(@, d, i),
                                      !.rnd = @ + 1]
                  IN  Ok(auditLog(S1, schoolId, "DOMAIN_CUSTOM_REREQUESTED", <<d>>), S1.domains[i])
        ELSE LET id == Len(S.domains) + 1
                 cfg == [id |-> id, schoolId |-> schoolId, type |-> "custom", domain |-> d,
                         verified |-> FALSE, verificationToken |-> token]
                 S1 == [S EXCEPT !.domains = Append(@, cfg),
                                 !.domainIndex.byCustomDomain = Put(@, d, id),
                                 !.rnd = @ + 1]
             IN  Ok(auditLog(S1, schoolId, "DOMAIN_CUSTOM_REQUESTED", <<d>>), cfg)

\* A request that only a verified record of another school stands in the way of.
requestCustomDomainUntilVerified(S, schoolId, domain) ==
    LET d == normalizeDomain(domain)
        byCustom == S.domainIndex.byCustomDomain
        existing == {i \in DOMAIN S.domains :
                        /\ S.domains[i].type = "custom"
                        /\ S.domains[i].schoolId = schoolId
                        /\ S.domains[i].domain = d}
        token == S.rnd + 1
    IN  IF assertSchoolActive(S, schoolId) # "" THEN Throw(S, assertSchoolActive(S, schoolId))
        ELSE IF ~isValidDomainLike(d) THEN Throw(S, "CUSTOM_DOMAIN_INVALID")
        ELSE IF UnderBaseDomain(d) THEN Throw(S, "CUSTOM_DOMAIN_NOT_ALLOWED")
        ELSE IF d \in DOMAIN byCustom /\ byCustom[d] \in DOMAIN S.domains
                /\ S.domains[byCustom[d]].schoolId # schoolId
                /\ S.domains[byCustom[d]].verified
             THEN Throw(S, "CUSTOM_DOMAIN_ALREADY_IN_USE")
        ELSE IF existing # {}
             THEN LET i == CHOOSE x \in existing : \A y \in existing : x <= y
                      S1 == [S EXCEPT !.domains[i].verified = FALSE,
                                      !.domains[i].verificationToken = token,
                                      !.domainIndex.byCustomDomain = Put(@, d, i),
                                      !.rnd = @ + 1]
                  IN  Ok(auditLog(S1, schoolId, "DOMAIN_CUSTOM_REREQUESTED", <<d>>), S1.domains[i])
        ELSE LET id == Len(S.domains) + 1
                 cfg == [id |-> id, schoolId |-> schoolId, type |-> "custom", domain |-> d,
                         verified |-> FALSE, verificationToken |-> token]
                 S1 == [S EXCEPT !.domains = Append(@, cfg),
                                 !.domainIndex.byCustomDomain = Put(@, d, id),
                                 !.rnd = @ + 1]
             IN  Ok(auditLog(S1, schoolId, "DOMAIN_CUSTOM_REQUESTED", <<d>>), cfg)

requestCustomDomain(S, schoolId, domain) ==
    LET d == normalizeDomain(domain)
        byCustom == S.domainIndex.byCustomDomain
        existing == {i \in DOMAIN S.domains :
                        /\ S.domains[i].type = "custom"
                        /\ S.domains[i].schoolId = schoolId
                        /\ S.domains[i].domain = d}
        token == S.rnd + 1
    IN  IF assertSchoolActive(S, schoolId) # "" THEN Throw(S, assertSchoolActive(S, schoolId))
        ELSE IF ~isValidDomainLike(d) THEN Throw(S, "CUSTOM_DOMAIN_INVALID")
        ELSE IF UnderBaseDomain(d) THEN Throw(S, "CUSTOM_DOMAIN_NOT_ALLOWED")
        ELSE IF d \in DOMAIN byCustom /\ byCustom[d] \in DOMAIN S.domains
                /\ S.domains[byCustom[d]].schoolId # schoolId
             THEN Throw(S, "CUSTOM_DOMAIN_ALREADY_IN_USE")
        ELSE IF existing # {}
             THEN LET i == CHOOSE x \in existing : \A y \in existing : x <= y
                      S1 == [S EXCEPT !.domains[i].verified = FALSE,
                                      !.domains[i].verificationToken = token,
                                      !.domainIndex.byCustomDomain = Put(@, d, i),
                                      !.rnd = @ + 1]
                  IN  Ok(auditLog(S1, schoolId, "DOMAIN_CUSTOM_REREQUESTED", <<d>>), S1.domains[i])
        ELSE LET id == Len(S.domains) + 1
                 cfg == [id |-> id, schoolId |-> schoolId, type |-> "custom", domain |-> d,
                         verified |-> FALSE, verificationToken |-> token]
                 S1 == [S EXCEPT !.domains = Append(@, cfg),
                                 !.domainIndex.byCustomDomain = Put(@, d, id),
                                 !.rnd = @ + 1]
             IN  Ok(auditLog(S1, schoolId, "DOMAIN_CUSTOM_REQUESTED", <<d>>), cfg)

\* A token a caller supplies is <<form, t>>: the text of the t-th random token
\* as randomToken returned it ("exact"), with white space around it ("padded")
\* or upper-cased ("upper"); t = 0 is the empty string or no token at all.
\* String(token || "").trim() on such a token.
TrimToken(token) == IF token[1] = "padded" THEN <<"exact", token[2]>> ELSE token

\* A verification that compares the tokens without regard to case.
verifyCustomDomainUpperCase(S, schoolId, domain, token) ==
    LET d == normalizeDomain(domain)
        byCustom == S.domainIndex.byCustomDomain
        provided == TrimToken(token)
    IN  IF assertSchoolActive(S, schoolId) # "" THEN Throw(S, assertSchoolActive(S, schoolId))
        ELSE IF d \notin DOMAIN byCustom \/ byCustom[d] \notin DOMAIN S.domains
             THEN Throw(S, "CUSTOM_DOMAIN_NOT_REQUESTED")
        ELSE
        LET i == byCustom[d]
        IN  IF S.domains[i].type # "custom" THEN Throw(S, "CUSTOM_DOMAIN_INVALID_STATE")
            ELSE IF S.domains[i].schoolId # schoolId THEN Throw(S, "CUSTOM_DOMAIN_OWNERSHIP_MISMATCH")
            ELSE IF S.domains[i].verificationToken = 0 THEN Throw(S, "CUSTOM_DOMAIN_MISSING_TOKEN")
            ELSE IF provided \notin {"exact", "upper"} \X {S.domains[i].verificationToken}
                 THEN Throw(S, "CUSTOM_DOMAIN_TOKEN_INVALID")
            ELSE LET S1 == [S EXCEPT !.domains[i].verified = TRUE]
                 IN  Ok(auditLog(S1, schoolId, "DOMAIN_CUSTOM_VERIFIED", <<d>>), S1.domains[i])

verifyCustomDomain(S, schoolId, domain, token) ==
    LET d == normalizeDomain(domain)
        byCustom == S.domainIndex.byCustomDomain
        provided == TrimToken(token)
    IN  IF assertSchoolActive(S, schoolId) # "" THEN Throw(S, assertSchoolActive(S, schoolId))
        ELSE IF d \notin DOMAIN byCustom \/ byCustom[d] \notin DOMAIN S.domains
             THEN Throw(S, "CUSTOM_DOMAIN_NOT_REQUESTED")
        ELSE
        LET i == byCustom[d]
        IN  IF S.domains[i].type # "custom" THEN Throw(S, "CUSTOM_DOMAIN_INVALID_STATE")
            ELSE IF S.domains[i].schoolId # schoolId THEN Throw(S, "CUSTOM_DOMAIN_OWNERSHIP_MISMATCH")
            ELSE IF S.domains[i].verificationToken = 0 THEN Throw(S, "CUSTOM_DOMAIN_MISSING_TOKEN")
            ELSE IF provided # <<"exact", S.domains[i].verificationToken>>
                 THEN Throw(S, "CUSTOM_DOMAIN_TOKEN_INVALID")
            ELSE LET S1 == [S EXCEPT !.domains[i].verified = TRUE]
                 IN  Ok(auditLog(S1, schoolId, "DOMAIN_CUSTOM_VERIFIED", <<d>>), S1.domains[i])

\* A resolver that does not look at the verified flag.
resolveSchoolByHostUnverified(S, host) ==
    LET h == normalizeHost(host)
        byCustom == S.domainIndex.byCustomDomain
        bySub == S.domainIndex.bySubdomain
    IN  IF h = "" THEN None
        ELSE IF /\ h \in DOMAIN byCustom
                /\ byCustom[h] \in DOMAIN S.domains
                /\ S.domains[byCustom[h]].type = "custom"
             THEN IF S.domains[byCustom[h]].schoolId \in DOMAIN S.schools
                  THEN Some(S.schools[S.domains[byCustom[h]].schoolId]) ELSE None
        ELSE IF h \in DOMAIN bySub
             THEN IF bySub[h] \in DOMAIN S.schools THEN Some(S.schools[bySub[h]]) ELSE None
        ELSE None

\* The school the host resolves to, null when none.
resolveSchoolByHost(S, host) ==
    LET h == normalizeHost(host)
        byCustom == S.domainIndex.byCustomDomain
        bySub == S.domainIndex.bySubdomain
    IN  IF h = "" THEN None
        ELSE IF /\ h \in DOMAIN byCustom
                /\ byCustom[h] \in DOMAIN S.domains
                /\ S.domains[byCustom[h]].type = "custom"
                /\ S.domains[byCustom[h]].verified
             THEN IF S.domains[byCustom[h]].schoolId \in DOMAIN S.schools
                  THEN Some(S.schools[S.domains[byCustom[h]].schoolId]) ELSE None
        ELSE IF h \in DOMAIN bySub
             THEN IF bySub[h] \in DOMAIN S.schools THEN Some(S.schools[bySub[h]]) ELSE None
        ELSE None

\* ------------------------------------------------------------------ pricing
\* A number a caller passes (a price, a promo value) is in thousandths: 199.90
\* is 199900, 20 (%) is 20000, 0.004 is 4.  A number round2 has returned, and
\* so every stored price, promo value and order amount, is in hundredths.
\* Math.round(a / b) for a >= 0: half rounds up.
RoundDiv(a, b) == (2 * a + b) \div (2 * b)

\* Math.round(n * 100) / 100: thousandths in, hundredths out.
round2(n) == RoundDiv(n, 10)

\* The error normalizePromo throws, "" when it returns.  value is the number
\* passed, basePrice the rounded pricing.price; untilIso is 0 when none is
\* passed and negative when the string passed is not a date.
normalizePromoError(promo, basePrice) ==
    IF promo.type \notin {"PERCENT", "FIXED"} THEN "PROMO_TYPE_INVALID"
    ELSE IF promo.value <= 0 THEN "PROMO_VALUE_INVALID"
    ELSE IF promo.untilIso = 0 THEN "PROMO_UNTIL_REQUIRED"
    ELSE IF promo.type = "PERCENT" /\ promo.value >= 100000 THEN "PROMO_PERCENT_INVALID"
    ELSE IF promo.type = "FIXED" /\ promo.value >= 10 * basePrice THEN "PROMO_FIXED_INVALID"
    ELSE ""

\* normalizePromo's value: { type, value: round2(value), untilIso }
normalizePromo(promo) ==
    [type |-> promo.type, value |-> round2(promo.value), untilIso |-> promo.untilIso]

\* The error normalizePricing throws, "" when it returns.  Of the currencies
\* the model feeds in, "BRL" and "USD" have three letters.
normalizePricingError(price, currency, promo) ==
    IF price <= 0 THEN "COURSE_PRICE_INVALID"
    ELSE IF currency \notin {"BRL", "USD"} THEN "COURSE_CURRENCY_INVALID"
    ELSE IF promo # None THEN normalizePromoError(promo[1], round2(price))
    ELSE ""

normalizePricing(price, currency, promo) ==
    [price |-> round2(price), currency |-> currency,
     promo |-> IF promo = None THEN None ELSE Some(normalizePromo(promo[1]))]

\* A getEffectivePrice whose promo has already ended at the instant untilIso.
getEffectivePriceExclusive(pricing, at) ==
    IF pricing.promo = None THEN pricing.price
    ELSE LET promo == pricing.promo[1]
         IN  IF promo.untilIso < 0 THEN pricing.price
             ELSE IF at >= promo.untilIso THEN pricing.price
             ELSE IF promo.type = "PERCENT"
                  THEN RoundDiv(pricing.price * (10000 - promo.value), 10000)
             ELSE IF promo.type = "FIXED" THEN pricing.price - promo.value
             ELSE pricing.price

\* getEffectivePrice(pricing, now): at is now.getTime().
getEffectivePrice(pricing, at) ==
    IF pricing.promo = None THEN pricing.price
    ELSE LET promo == pricing.promo[1]
         IN  IF promo.untilIso < 0 THEN pricing.price
             ELSE IF at > promo.untilIso THEN pricing.price
             ELSE IF promo.type = "PERCENT"
                  THEN RoundDiv(pricing.price * (10000 - promo.value), 10000)
             ELSE IF promo.type = "FIXED" THEN pricing.price - promo.value
             ELSE pricing.price

\* ------------------------------------------------------------------ courses
\* The error the lookups at the head of every course operation throw, "" when
\* they pass: assertSchoolActive, getCourseOrThrow, assertCourseSchoolAccess.
CourseAccessError(S, schoolId, courseId) ==
    IF assertSchoolActive(S, schoolId) # "" THEN assertSchoolActive(S, schoolId)
    ELSE IF courseId \notin DOMAIN S.courses THEN "COURSE_NOT_FOUND"
    ELSE IF S.courses[courseId].schoolId # schoolId THEN "COURSE_ACCESS_DENIED"
    ELSE ""

\* createCourseAI and createCourseImport differ in the type they store.
createCourse(S, type, schoolId, title, price, currency, promo) ==
    IF assertSchoolActive(S, schoolId) # "" THEN Throw(S, assertSchoolActive(S, schoolId))
    ELSE IF Trim(title) = "" THEN Throw(S, "COURSE_TITLE_REQUIRED")
    ELSE
    LET cur == IF currency = "" THEN "BRL" ELSE currency
    IN  IF normalizePricingError(price, cur, promo) # ""
        THEN Throw(S, normalizePricingError(price, cur, promo))
        ELSE
        LET id == Len(S.courses) + 1
            course == [id |-> id, schoolId |-> schoolId, type |-> type, title |-> Trim(title),
                       pricing |-> normalizePricing(price, cur, promo),
                       aiInputs |-> None, structure |-> None, fullContent |-> None,
                       state |-> "DRAFT", publishedAt |-> 0]
        IN  Ok(auditLog([S EXCEPT !.courses = Append(@, course),
                                  !.courseIndex[schoolId] = @ \cup {id}],
                        schoolId, "COURSE_CREATED", <<id, type>>), course)

createCourseAI(S, schoolId, title, price, currency, promo) ==
    createCourse(S, "AI", schoolId, title, price, currency, promo)

createCourseImport(S, schoolId, title, price, currency, promo) ==
    createCourse(S, "IMPORT", schoolId, title, price, currency, promo)

\* The error normalizeAiInputs throws, "" when it returns; inputs may be null.
normalizeAiInputsError(inputs) ==
    IF inputs = None \/ Trim(inputs[1].theme) = "" THEN "AI_INPUT_THEME_REQUIRED"
    ELSE IF Trim(inputs[1].audience) = "" THEN "AI_INPUT_AUDIENCE_REQUIRED"
    ELSE IF Trim(inputs[1].level) = "" THEN "AI_INPUT_LEVEL_REQUIRED"
    ELSE IF inputs[1].hours < 8 \/ inputs[1].hours > 40 THEN "AI_INPUT_HOURS_INVALID"
    ELSE IF Trim(inputs[1].language) = "" THEN "AI_INPUT_LANGUAGE_REQUIRED"
    ELSE ""

mockStructureFromInputs(inp) ==
    LET base == <<"Fundamentos", "Aplicacao", "Projeto">>
    IN  [i \in 1..3 |->
            [title |-> <<base[i], inp.theme>>,
             objectives |-> <<"compreender", "aplicar", "consolidar">>,
             lessons |-> <<[title |-> <<base[i], "conceitos-chave">>],
                           [title |-> <<base[i], "pratica guiada">>],
                           [title |-> <<base[i], "exercicio e revisao">>]>>]]

aiGenerateStructure(S, schoolId, courseId, inputs) ==
    IF CourseAccessError(S, schoolId, courseId) # ""
    THEN Throw(S, CourseAccessError(S, schoolId, courseId))
    ELSE IF S.courses[courseId].type # "AI" THEN Throw(S, "COURSE_NOT_AI")
    ELSE IF S.courses[courseId].state # "DRAFT" THEN Throw(S, "COURSE_INVALID_STATE")
    ELSE IF normalizeAiInputsError(inputs) # "" THEN Throw(S, normalizeAiInputsError(inputs))
    ELSE
    LET S1 == [S EXCEPT !.courses[courseId].aiInputs = inputs,
                        !.courses[courseId].state = "DRAFTING_STRUCTURE",
                        !.courses[courseId].structure =
                            Some([modules |-> mockStructureFromInputs(inputs[1])])]
    IN  Ok(auditLog(S1, schoolId, "COURSE_STRUCTURE_GENERATED", <<courseId>>), S1.courses[courseId])

\* The first error of the validation loop over one module's lessons, "" when none.
LessonsError(lessons, withUrl) ==
    LET bad(l) == Trim(Field(l, "title", "")) = ""
                  \/ (withUrl /\ Trim(Field(l, "externalUrl", "")) = "")
        first == CHOOSE i \in 1..Len(lessons) :
                     bad(lessons[i]) /\ \A j \in 1..(i - 1) : ~bad(lessons[j])
    IN  IF \A i \in 1..Len(lessons) : ~bad(lessons[i]) THEN ""
        ELSE IF Trim(Field(lessons[first], "title", "")) = ""
             THEN "COURSE_STRUCTURE_LESSON_TITLE_REQUIRED"
        ELSE "COURSE_IMPORT_URL_REQUIRED"

ModuleError(m, withUrl) ==
    IF Trim(Field(m, "title", "")) = "" THEN "COURSE_STRUCTURE_MODULE_TITLE_REQUIRED"
    ELSE IF Len(Field(m, "lessons", <<>>)) = 0 THEN "COURSE_STRUCTURE_LESSONS_REQUIRED"
    ELSE LessonsError(m.lessons, withUrl)

\* The error the structure validation throws, "" when the structure passes;
\* structure may be null.  withUrl is validateImportStructure's extra check.
StructureError(structure, withUrl) ==
    IF structure = None \/ Len(structure[1].modules) = 0 THEN "COURSE_STRUCTURE_INVALID"
    ELSE
    LET ms == structure[1].modules
        bad(i) == ModuleError(ms[i], withUrl) # ""
    IN  IF \A i \in 1..Len(ms) : ~bad(i) THEN ""
        ELSE ModuleError(ms[CHOOSE i \in 1..Len(ms) :
                                bad(i) /\ \A j \in 1..(i - 1) : ~bad(j)], withUrl)

validateImportStructure(structure) == StructureError(structure, TRUE)

\* An edit that is still accepted after the structure was approved.
editCourseStructureUnlocked(S, schoolId, courseId, structure) ==
    IF CourseAccessError(S, schoolId, courseId) # ""
    THEN Throw(S, CourseAccessError(S, schoolId, courseId))
    ELSE IF S.courses[courseId].state \notin {"DRAFTING_STRUCTURE", "STRUCTURE_APPROVED"}
         THEN Throw(S, "COURSE_STRUCTURE_NOT_EDITABLE")
    ELSE IF StructureError(structure, FALSE) # "" THEN Throw(S, StructureError(structure, FALSE))
    ELSE LET S1 == [S EXCEPT !.courses[courseId].structure = structure]
         IN  Ok(auditLog(S1, schoolId, "COURSE_STRUCTURE_EDITED", <<courseId>>), S1.courses[courseId])

editCourseStructure(S, schoolId, courseId, structure) ==
    IF CourseAccessError(S, schoolId, courseId) # ""
    THEN Throw(S, CourseAccessError(S, schoolId, courseId))
    ELSE IF S.courses[courseId].state # "DRAFTING_STRUCTURE"
         THEN Throw(S, "COURSE_STRUCTURE_NOT_EDITABLE")
    ELSE IF StructureError(structure, FALSE) # "" THEN Throw(S, StructureError(structure, FALSE))
    ELSE LET S1 == [S EXCEPT !.courses[courseId].structure = structure]
         IN  Ok(auditLog(S1, schoolId, "COURSE_STRUCTURE_EDITED", <<courseId>>), S1.courses[courseId])

approveCourseStructure(S, schoolId, courseId) ==
    IF CourseAccessError(S, schoolId, courseId) # ""
    THEN Throw(S, CourseAccessError(S, schoolId, courseId))
    ELSE IF S.courses[courseId].state # "DRAFTING_STRUCTURE" THEN Throw(S, "COURSE_INVALID_STATE")
    ELSE IF S.courses[courseId].structure = None
            \/ Len(S.courses[courseId].structure[1].modules) = 0
         THEN Throw(S, "COURSE_STRUCTURE_MISSING")
    ELSE LET S1 == [S EXCEPT !.courses[courseId].state = "STRUCTURE_APPROVED"]
         IN  Ok(auditLog(S1, schoolId, "COURSE_STRUCTURE_APPROVED", <<courseId>>), S1.courses[courseId])

\* A title that is a Symbol, named by what String() makes of it.  String(x)
\* converts a Symbol, so the validation loops accept it as a title; a
\* template literal throws a TypeError on it.
SymbolTitle == "Symbol(aula)"

\* The error mockFullContent throws, "" when it returns: the templates of the
\* lesson bodies and of the quiz questions interpolate the titles.
mockFullContentError(course) ==
    LET ms == course.structure[1].modules
    IN  IF \E mi \in 1..Len(ms) :
               \/ ms[mi].title = SymbolTitle
               \/ \E li \in 1..Len(ms[mi].lessons) : ms[mi].lessons[li].title = SymbolTitle
        THEN "TypeError"
        ELSE ""

\* A generator that writes the first module and stops.
mockFullContentFirstModule(course) ==
    LET ms == SubSeq(course.structure[1].modules, 1, 1)
    IN  [modules |->
            [mi \in 1..Len(ms) |->
                [title |-> ms[mi].title,
                 objectives |-> Field(ms[mi], "objectives", <<>>),
                 lessons |-> [li \in 1..Len(ms[mi].lessons) |->
                                 [title |-> ms[mi].lessons[li].title,
                                  body |-> <<"Texto", ms[mi].lessons[li].title>>,
                                  videoScript |-> <<"Roteiro", ms[mi].lessons[li].title>>,
                                  slides |-> <<<<"Slide 1", ms[mi].lessons[li].title>>,
                                               "Slide 2", "Slide 3", "Slide 4">>]],
                 quiz |-> [title |-> <<"Quiz", mi>>,
                           questions |-> <<[q |-> <<"Pergunta 1", ms[mi].title>>, answer |-> "A"],
                                           [q |-> <<"Pergunta 2", ms[mi].title>>, answer |-> "B"]>>]]],
         ebook |-> [chapters |-> [mi \in 1..Len(ms) |-> ms[mi].title]]]

mockFullContent(course) ==
    LET ms == course.structure[1].modules
    IN  [modules |->
            [mi \in 1..Len(ms) |->
                [title |-> ms[mi].title,
                 objectives |-> Field(ms[mi], "objectives", <<>>),
                 lessons |-> [li \in 1..Len(ms[mi].lessons) |->
                                 [title |-> ms[mi].lessons[li].title,
                                  body |-> <<"Texto", ms[mi].lessons[li].title>>,
                                  videoScript |-> <<"Roteiro", ms[mi].lessons[li].title>>,
                                  slides |-> <<<<"Slide 1", ms[mi].lessons[li].title>>,
                                               "Slide 2", "Slide 3", "Slide 4">>]],
                 quiz |-> [title |-> <<"Quiz", mi>>,
                           questions |-> <<[q |-> <<"Pergunta 1", ms[mi].title>>, answer |-> "A"],
                                           [q |-> <<"Pergunta 2", ms[mi].title>>, answer |-> "B"]>>]]],
         ebook |-> [chapters |-> [mi \in 1..Len(ms) |-> ms[mi].title]]]

\* A generation that never leaves its transient state.
aiGenerateFullCourseStuck(S, schoolId, courseId) ==
    IF CourseAccessError(S, schoolId, courseId) # ""
    THEN Throw(S, CourseAccessError(S, schoolId, courseId))
    ELSE IF S.courses[courseId].type # "AI" THEN Throw(S, "COURSE_NOT_AI")
    ELSE IF S.courses[courseId].state # "STRUCTURE_APPROVED" THEN Throw(S, "COURSE_INVALID_STATE")
    ELSE
    LET S1 == [S EXCEPT !.courses[courseId].state = "GENERATING_FULL"]
        S2 == [S1 EXCEPT !.courses[courseId].fullContent = Some(mockFullContent(S1.courses[courseId]))]
    IN  Ok(auditLog(S2, schoolId, "COURSE_FULL_GENERATED", <<courseId>>), S2.courses[courseId])

aiGenerateFullCourse(S, schoolId, courseId) ==
    IF CourseAccessError(S, schoolId, courseId) # ""
    THEN Throw(S, CourseAccessError(S, schoolId, courseId))
    ELSE IF S.courses[courseId].type # "AI" THEN Throw(S, "COURSE_NOT_AI")
    ELSE IF S.courses[courseId].state # "STRUCTURE_APPROVED" THEN Throw(S, "COURSE_INVALID_STATE")
    ELSE
    LET S1 == [S EXCEPT !.courses[courseId].state = "GENERATING_FULL"]
        S2 == [S1 EXCEPT !.courses[courseId].fullContent = Some(mockFullContent(S1.courses[courseId]))]
        S3 == [S2 EXCEPT !.courses[courseId].state = "DRAFT_READY"]
    IN  IF mockFullContentError(S1.courses[courseId]) # ""
        THEN Throw(S1, mockFullContentError(S1.courses[courseId]))
        ELSE Ok(auditLog(S3, schoolId, "COURSE_FULL_GENERATED", <<courseId>>), S3.courses[courseId])

setImportStructure(S, schoolId, courseId, structure) ==
    IF CourseAccessError(S, schoolId, courseId) # ""
    THEN Throw(S, CourseAccessError(S, schoolId, courseId))
    ELSE IF S.courses[courseId].type # "IMPORT" THEN Throw(S, "COURSE_NOT_IMPORT")
    ELSE IF S.courses[courseId].state # "DRAFT" THEN Throw(S, "COURSE_INVALID_STATE")
    ELSE IF validateImportStructure(structure) # "" THEN Throw(S, validateImportStructure(structure))
    ELSE LET S1 == [S EXCEPT !.courses[courseId].structure = structure,
                             !.courses[courseId].state = "DRAFT_READY"]
         IN  Ok(auditLog(S1, schoolId, "COURSE_IMPORT_STRUCTURE_SET", <<courseId>>), S1.courses[courseId])

\* A publish that checks no state.
publishCourseFromAny(S, schoolId, courseId) ==
    IF CourseAccessError(S, schoolId, courseId) # ""
    THEN Throw(S, CourseAccessError(S, schoolId, courseId))
    ELSE LET S1 == [S EXCEPT !.courses[courseId].state = "PUBLISHED",
                             !.courses[courseId].publishedAt = now]
         IN  Ok(auditLog(S1, schoolId, "COURSE_PUBLISHED", <<courseId>>), S1.courses[courseId])

\* A publish that can be repeated on a course already PUBLISHED.
publishCourseAgain(S, schoolId, courseId) ==
    IF CourseAccessError(S, schoolId, courseId) # ""
    THEN Throw(S, CourseAccessError(S, schoolId, courseId))
    ELSE IF S.courses[courseId].state \notin {"DRAFT_READY", "PUBLISHED"}
         THEN Throw(S, "COURSE_NOT_READY_TO_PUBLISH")
    ELSE LET S1 == [S EXCEPT !.courses[courseId].state = "PUBLISHED",
                             !.courses[courseId].publishedAt = now]
         IN  Ok(auditLog(S1, schoolId, "COURSE_PUBLISHED", <<courseId>>), S1.courses[courseId])

publishCourse(S, schoolId, courseId) ==
    IF CourseAccessError(S, schoolId, courseId) # ""
    THEN Throw(S, CourseAccessError(S, schoolId, courseId))
    ELSE IF S.courses[courseId].state # "DRAFT_READY" THEN Throw(S, "COURSE_NOT_READY_TO_PUBLISH")
    ELSE LET S1 == [S EXCEPT !.courses[courseId].state = "PUBLISHED",
                             !.courses[courseId].publishedAt = now]
         IN  Ok(auditLog(S1, schoolId, "COURSE_PUBLISHED", <<courseId>>), S1.courses[courseId])

\* ------------------------------------------------------------------ orders
\* email.includes("@") on the addresses the model feeds in.
HasAt(email) == email \in {"a@b.com", "x@y.com"}

\* set.add(id) on the Set stored under key k, created empty when absent.
AddTo(m, k, id) == Put(m, k, (IF k \in DOMAIN m THEN m[k] ELSE {}) \cup {id})

\* A createOrder that sells a course whatever its state is.
createOrderUnpublished(S, schoolId, courseId, buyerEmail) ==
    IF CourseAccessError(S, schoolId, courseId) # ""
    THEN Throw(S, CourseAccessError(S, schoolId, courseId))
    ELSE
    LET email == ToLowerCase(Trim(buyerEmail))
    IN  IF ~HasAt(email) THEN Throw(S, "BUYER_EMAIL_INVALID")
        ELSE
        LET id == Len(S.orders) + 1
            order == [id |-> id, schoolId |-> schoolId, courseId |-> courseId,
                      buyerEmail |-> email,
                      amount |-> getEffectivePrice(S.courses[courseId].pricing, now),
                      currency |-> S.courses[courseId].pricing.currency,
                      status |-> "PENDING"]
            S1 == [S EXCEPT !.orders = Append(@, order),
                            !.orderIndex.bySchool = AddTo(@, schoolId, id),
                            !.orderIndex.byBuyer = AddTo(@, <<schoolId, email>>, id),
                            !.orderIndex.byCourse = AddTo(@, <<schoolId, courseId>>, id)]
        IN  Ok(auditLog(S1, schoolId, "ORDER_CREATED", <<id, courseId, email>>), order)

createOrder(S, schoolId, courseId, buyerEmail) ==
    IF CourseAccessError(S, schoolId, courseId) # ""
    THEN Throw(S, CourseAccessError(S, schoolId, courseId))
    ELSE IF S.courses[courseId].state # "PUBLISHED" THEN Throw(S, "COURSE_NOT_FOR_SALE")
    ELSE
    LET email == ToLowerCase(Trim(buyerEmail))
    IN  IF ~HasAt(email) THEN Throw(S, "BUYER_EMAIL_INVALID")
        ELSE
        LET id == Len(S.orders) + 1
            order == [id |-> id, schoolId |-> schoolId, courseId |-> courseId,
                      buyerEmail |-> email,
                      amount |-> getEffectivePrice(S.courses[courseId].pricing, now),
                      currency |-> S.courses[courseId].pricing.currency,
                      status |-> "PENDING"]
            S1 == [S EXCEPT !.orders = Append(@, order),
                            !.orderIndex.bySchool = AddTo(@, schoolId, id),
                            !.orderIndex.byBuyer = AddTo(@, <<schoolId, email>>, id),
                            !.orderIndex.byCourse = AddTo(@, <<schoolId, courseId>>, id)]
        IN  Ok(auditLog(S1, schoolId, "ORDER_CREATED", <<id, courseId, email>>), order)

\* A checkout that can be started again for an order already paid or failed.
startDemoCheckoutAnyStatus(S, schoolId, orderId, outcome) ==
    IF assertSchoolActive(S, schoolId) # "" THEN Throw(S, assertSchoolActive(S, schoolId))
    ELSE IF orderId \notin DOMAIN S.orders THEN Throw(S, "ORDER_NOT_FOUND")
    ELSE IF S.orders[orderId].schoolId # schoolId THEN Throw(S, "ORDER_ACCESS_DENIED")
    ELSE IF schoolId \notin DOMAIN S.gateway \/ S.gateway[schoolId].provider # "DEMO"
         THEN Throw(S, "GATEWAY_NOT_CONFIGURED")
    ELSE
    LET oc == ToUpperCase(Trim(outcome))
    IN  IF oc \notin {"APPROVED", "DECLINED"} THEN Throw(S, "CHECKOUT_OUTCOME_INVALID")
        ELSE
        LET paymentId == Len(S.payments) + 1
            payment == [id |-> paymentId, schoolId |-> schoolId, orderId |-> orderId,
                        provider |-> "DEMO", status |-> "INITIATED"]
            eventId == Len(S.payments) + 1  \* generateId("whk"): the n-th fresh event id
            payload == [provider |-> "DEMO", eventId |-> eventId, schoolId |-> schoolId,
                        orderId |-> orderId, paymentId |-> paymentId, result |-> oc,
                        ts |-> now]
            signature == hmacSha256(S.gateway[schoolId].webhookSecret, stableStringify(payload))
            S1 == [S EXCEPT !.payments = Append(@, payment)]
        IN  Ok(auditLog(S1, schoolId, "CHECKOUT_STARTED", <<orderId, oc, paymentId, eventId>>),
               [checkoutUrl |-> <<"checkout", orderId, oc>>,
                webhook |-> [payload |-> payload, signature |-> signature]])

\* A checkout that does not ask whose the order is.
startDemoCheckoutAnyOwner(S, schoolId, orderId, outcome) ==
    IF assertSchoolActive(S, schoolId) # "" THEN Throw(S, assertSchoolActive(S, schoolId))
    ELSE IF orderId \notin DOMAIN S.orders THEN Throw(S, "ORDER_NOT_FOUND")
    ELSE IF S.orders[orderId].status # "PENDING" THEN Throw(S, "ORDER_NOT_PENDING")
    ELSE IF schoolId \notin DOMAIN S.gateway \/ S.gateway[schoolId].provider # "DEMO"
         THEN Throw(S, "GATEWAY_NOT_CONFIGURED")
    ELSE
    LET oc == ToUpperCase(Trim(outcome))
    IN  IF oc \notin {"APPROVED", "DECLINED"} THEN Throw(S, "CHECKOUT_OUTCOME_INVALID")
        ELSE
        LET paymentId == Len(S.payments) + 1
            payment == [id |-> paymentId, schoolId |-> schoolId, orderId |-> orderId,
                        provider |-> "DEMO", status |-> "INITIATED"]
            eventId == Len(S.payments) + 1  \* generateId("whk"): the n-th fresh event id
            payload == [provider |-> "DEMO", eventId |-> eventId, schoolId |-> schoolId,
                        orderId |-> orderId, paymentId |-> paymentId, result |-> oc,
                        ts |-> now]
            signature == hmacSha256(S.gateway[schoolId].webhookSecret, stableStringify(payload))
            S1 == [S EXCEPT !.payments = Append(@, payment)]
        IN  Ok(auditLog(S1, schoolId, "CHECKOUT_STARTED", <<orderId, oc, paymentId, eventId>>),
               [checkoutUrl |-> <<"checkout", orderId, oc>>,
                webhook |-> [payload |-> payload, signature |-> signature]])

startDemoCheckout(S, schoolId, orderId, outcome) ==
    IF assertSchoolActive(S, schoolId) # "" THEN Throw(S, assertSchoolActive(S, schoolId))
    ELSE IF orderId \notin DOMAIN S.orders THEN Throw(S, "ORDER_NOT_FOUND")
    ELSE IF S.orders[orderId].schoolId # schoolId THEN Throw(S, "ORDER_ACCESS_DENIED")
    ELSE IF S.orders[orderId].status # "PENDING" THEN Throw(S, "ORDER_NOT_PENDING")
    ELSE IF schoolId \notin DOMAIN S.gateway \/ S.gateway[schoolId].provider # "DEMO"
         THEN Throw(S, "GATEWAY_NOT_CONFIGURED")
    ELSE
    LET oc == ToUpperCase(Trim(outcome))
    IN  IF oc \notin {"APPROVED", "DECLINED"} THEN Throw(S, "CHECKOUT_OUTCOME_INVALID")
        ELSE
        LET paymentId == Len(S.payments) + 1
            payment == [id |-> paymentId, schoolId |-> schoolId, orderId |-> orderId,
                        provider |-> "DEMO", status |-> "INITIATED"]
            eventId == Len(S.payments) + 1  \* generateId("whk"): the n-th fresh event id
            payload == [provider |-> "DEMO", eventId |-> eventId, schoolId |-> schoolId,
                        orderId |-> orderId, paymentId |-> paymentId, result |-> oc,
                        ts |-> now]
            signature == hmacSha256(S.gateway[schoolId].webhookSecret, stableStringify(payload))
            S1 == [S EXCEPT !.payments = Append(@, payment)]
        IN  Ok(auditLog(S1, schoolId, "CHECKOUT_STARTED", <<orderId, oc, paymentId, eventId>>),
               [checkoutUrl |-> <<"checkout", orderId, oc>>,
                webhook |-> [payload |-> payload, signature |-> signature]])

\* ------------------------------------------------------------------ enrollment
EnrollmentKey(schoolId, buyerEmail, courseId) == <<schoolId, buyerEmail, courseId>>

\* An ensureEnrollment that never looks the key up.
ensureEnrollmentAlways(S, schoolId, buyerEmail, courseId, orderId) ==
    LET key == EnrollmentKey(schoolId, buyerEmail, courseId)
        id == Len(S.enrollments) + 1
        enrollment == [id |-> id, schoolId |-> schoolId, buyerEmail |-> buyerEmail,
                       courseId |-> courseId, orderId |-> orderId]
        S1 == [S EXCEPT !.enrollments = Append(@, enrollment),
                        !.enrollmentIndex = Put(@, key, id)]
    IN  Ok(auditLog(S1, schoolId, "ENROLLMENT_CREATED", <<id, courseId, buyerEmail>>),
           Some(enrollment))

ensureEnrollment(S, schoolId, buyerEmail, courseId, orderId) ==
    LET key == EnrollmentKey(schoolId, buyerEmail, courseId)
    IN  IF key \in DOMAIN S.enrollmentIndex
        THEN Ok(S, IF S.enrollmentIndex[key] \in DOMAIN S.enrollments
                   THEN Some(S.enrollments[S.enrollmentIndex[key]]) ELSE None)
        ELSE
        LET id == Len(S.enrollments) + 1
            enrollment == [id |-> id, schoolId |-> schoolId, buyerEmail |-> buyerEmail,
                           courseId |-> courseId, orderId |-> orderId]
            S1 == [S EXCEPT !.enrollments = Append(@, enrollment),
                            !.enrollmentIndex = Put(@, key, id)]
        IN  Ok(auditLog(S1, schoolId, "ENROLLMENT_CREATED", <<id, courseId, buyerEmail>>),
               Some(enrollment))

canAccessCourse(S, schoolId, buyerEmail, courseId) ==
    EnrollmentKey(schoolId, ToLowerCase(Trim(buyerEmail)), courseId) \in DOMAIN S.enrollmentIndex

\* ------------------------------------------------------------------ webhook
\* provider is "" when the caller passes none; payload is the empty object when
\* the caller passes none (every payload?.field is then undefined).
\* A processor that keeps no memory of the events it has applied.
webhookEventsHasNever(S, eventId) == FALSE

\* db.webhookEvents.has(eventId)
webhookEventsHas(S, eventId) == eventId \in DOMAIN S.webhookEvents

\* A replay that answers with the order's status of today.
storedSnapshotRefreshed(S, eventId) ==
    [S.webhookEvents[eventId].resultSnapshot EXCEPT
        !.orderStatus = S.orders[S.webhookEvents[eventId].resultSnapshot.orderId].status]

\* { ...existing.resultSnapshot }
storedSnapshot(S, eventId) == S.webhookEvents[eventId].resultSnapshot

\* A processor that enrolls the buyer whatever the result is.
applyResultEnrolling(S, schoolId, orderId, paymentId, eventId, result) ==
    LET status == IF result = "APPROVED" THEN "PAID" ELSE "FAILED"
        S1 == [S EXCEPT !.orders[orderId].status = status,
                        !.payments[paymentId].status =
                            IF result = "APPROVED" THEN "SUCCEEDED" ELSE "FAILED"]
        S2 == ensureEnrollment(S1, schoolId, S1.orders[orderId].buyerEmail,
                               S1.orders[orderId].courseId, orderId).db
    IN  auditLog(S2, schoolId, IF result = "APPROVED" THEN "PAYMENT_SUCCEEDED" ELSE "PAYMENT_FAILED",
                 <<orderId, paymentId, eventId>>)

\* A processor that takes the buyer's access away when a payment is declined.
applyResultRevoking(S, schoolId, orderId, paymentId, eventId, result) ==
    IF result = "APPROVED"
    THEN LET S1 == [S EXCEPT !.orders[orderId].status = "PAID",
                             !.payments[paymentId].status = "SUCCEEDED"]
             S2 == ensureEnrollment(S1, schoolId, S1.orders[orderId].buyerEmail,
                                    S1.orders[orderId].courseId, orderId).db
         IN  auditLog(S2, schoolId, "PAYMENT_SUCCEEDED", <<orderId, paymentId, eventId>>)
    ELSE LET key == EnrollmentKey(schoolId, S.orders[orderId].buyerEmail, S.orders[orderId].courseId)
             S1 == [S EXCEPT !.orders[orderId].status = "FAILED",
                             !.payments[paymentId].status = "FAILED",
                             !.enrollmentIndex = [k \in DOMAIN @ \ {key} |-> @[k]]]
         IN  auditLog(S1, schoolId, "PAYMENT_FAILED", <<orderId, paymentId, eventId>>)

\* A processor that charges the price of the day the payment is approved.
applyResultRepricing(S, schoolId, orderId, paymentId, eventId, result) ==
    IF result = "APPROVED"
    THEN LET S1 == [S EXCEPT !.orders[orderId].status = "PAID",
                             !.orders[orderId].amount =
                                 getEffectivePrice(S.courses[S.orders[orderId].courseId].pricing, now),
                             !.payments[paymentId].status = "SUCCEEDED"]
             S2 == ensureEnrollment(S1, schoolId, S1.orders[orderId].buyerEmail,
                                    S1.orders[orderId].courseId, orderId).db
         IN  auditLog(S2, schoolId, "PAYMENT_SUCCEEDED", <<orderId, paymentId, eventId>>)
    ELSE LET S1 == [S EXCEPT !.orders[orderId].status = "FAILED",
                             !.payments[paymentId].status = "FAILED"]
         IN  auditLog(S1, schoolId, "PAYMENT_FAILED", <<orderId, paymentId, eventId>>)

\* An effect that is held back while the school is suspended.
applyResultIfActive(S, schoolId, orderId, paymentId, eventId, result) ==
    IF S.schools[schoolId].status # "ACTIVE" THEN S
    ELSE IF result = "APPROVED"
    THEN LET S1 == [S EXCEPT !.orders[orderId].status = "PAID",
                             !.payments[paymentId].status = "SUCCEEDED"]
             S2 == ensureEnrollment(S1, schoolId, S1.orders[orderId].buyerEmail,
                                    S1.orders[orderId].courseId, orderId).db
         IN  auditLog(S2, schoolId, "PAYMENT_SUCCEEDED", <<orderId, paymentId, eventId>>)
    ELSE LET S1 == [S EXCEPT !.orders[orderId].status = "FAILED",
                             !.payments[paymentId].status = "FAILED"]
         IN  auditLog(S1, schoolId, "PAYMENT_FAILED", <<orderId, paymentId, eventId>>)

\* "aplica efeito": what a validated event does to its order and payment.
applyResult(S, schoolId, orderId, paymentId, eventId, result) ==
    IF result = "APPROVED"
    THEN LET S1 == [S EXCEPT !.orders[orderId].status = "PAID",
                             !.payments[paymentId].status = "SUCCEEDED"]
             S2 == ensureEnrollment(S1, schoolId, S1.orders[orderId].buyerEmail,
                                    S1.orders[orderId].courseId, orderId).db
         IN  auditLog(S2, schoolId, "PAYMENT_SUCCEEDED", <<orderId, paymentId, eventId>>)
    ELSE LET S1 == [S EXCEPT !.orders[orderId].status = "FAILED",
                             !.payments[paymentId].status = "FAILED"]
         IN  auditLog(S1, schoolId, "PAYMENT_FAILED", <<orderId, paymentId, eventId>>)

\* A processor that does not ask whose the order and the payment are.
receiveWebhookAnyOwner(S, provider, payload, signature) ==
    LET prov == ToUpperCase(Trim(IF provider # "" THEN provider
                                 ELSE Field(payload, "provider", "")))
        eventId == Field(payload, "eventId", 0)
        schoolId == Field(payload, "schoolId", 0)
        orderId == Field(payload, "orderId", 0)
        paymentId == Field(payload, "paymentId", 0)
        result == ToUpperCase(Trim(Field(payload, "result", "")))
    IN  IF prov # "DEMO" THEN Throw(S, "WEBHOOK_PROVIDER_UNSUPPORTED")
        ELSE IF eventId = 0 THEN Throw(S, "WEBHOOK_EVENT_ID_REQUIRED")
        ELSE IF webhookEventsHas(S, eventId) THEN Ok(S, storedSnapshot(S, eventId))
        ELSE IF schoolId = 0 \/ orderId = 0 \/ paymentId = 0
             THEN Throw(S, "WEBHOOK_PAYLOAD_INVALID")
        ELSE IF result \notin {"APPROVED", "DECLINED"} THEN Throw(S, "WEBHOOK_RESULT_INVALID")
        ELSE IF schoolId \notin DOMAIN S.gateway THEN Throw(S, "GATEWAY_NOT_CONFIGURED")
        ELSE IF signature # hmacSha256(S.gateway[schoolId].webhookSecret, stableStringify(payload))
             THEN Throw(S, "WEBHOOK_SIGNATURE_INVALID")
        ELSE IF orderId \notin DOMAIN S.orders THEN Throw(S, "ORDER_NOT_FOUND")
        ELSE IF paymentId \notin DOMAIN S.payments THEN Throw(S, "PAYMENT_NOT_FOUND")
        ELSE IF S.payments[paymentId].orderId # orderId THEN Throw(S, "PAYMENT_ORDER_MISMATCH")
        ELSE
        LET applied == applyResult(S, schoolId, orderId, paymentId, eventId, result)
        IN
        \* JSON.parse(stableStringify(payload)) runs after the effect is applied
        IF JsonParseError(stableStringify(payload)) # "" THEN Throw(applied, "SyntaxError")
        ELSE
        LET snapshot == [ok |-> TRUE, provider |-> prov, eventId |-> eventId,
                         schoolId |-> schoolId, orderId |-> orderId, paymentId |-> paymentId,
                         orderStatus |-> applied.orders[orderId].status]
            evt == [id |-> eventId, provider |-> prov, schoolId |-> schoolId,
                    orderId |-> orderId, paymentId |-> paymentId,
                    payload |-> JsonParse(stableStringify(payload)),
                    signature |-> signature, resultSnapshot |-> snapshot]
            S3 == [applied EXCEPT !.webhookEvents = Put(@, eventId, evt)]
        IN  Ok(auditLog(S3, schoolId, "WEBHOOK_RECEIVED", <<eventId, orderId, result>>), snapshot)

\* A processor that records the event id of a delivery it could not finish.
receiveWebhookRecordingFailures(S, provider, payload, signature) ==
    LET prov == ToUpperCase(Trim(IF provider # "" THEN provider
                                 ELSE Field(payload, "provider", "")))
        eventId == Field(payload, "eventId", 0)
        schoolId == Field(payload, "schoolId", 0)
        orderId == Field(payload, "orderId", 0)
        paymentId == Field(payload, "paymentId", 0)
        result == ToUpperCase(Trim(Field(payload, "result", "")))
    IN  IF prov # "DEMO" THEN Throw(S, "WEBHOOK_PROVIDER_UNSUPPORTED")
        ELSE IF eventId = 0 THEN Throw(S, "WEBHOOK_EVENT_ID_REQUIRED")
        ELSE IF webhookEventsHas(S, eventId) THEN Ok(S, storedSnapshot(S, eventId))
        ELSE IF schoolId = 0 \/ orderId = 0 \/ paymentId = 0
             THEN Throw(S, "WEBHOOK_PAYLOAD_INVALID")
        ELSE IF result \notin {"APPROVED", "DECLINED"} THEN Throw(S, "WEBHOOK_RESULT_INVALID")
        ELSE IF schoolId \notin DOMAIN S.gateway THEN Throw(S, "GATEWAY_NOT_CONFIGURED")
        ELSE IF signature # hmacSha256(S.gateway[schoolId].webhookSecret, stableStringify(payload))
             THEN Throw(S, "WEBHOOK_SIGNATURE_INVALID")
        ELSE IF orderId \notin DOMAIN S.orders THEN Throw(S, "ORDER_NOT_FOUND")
        ELSE IF S.orders[orderId].schoolId # schoolId THEN Throw(S, "ORDER_ACCESS_DENIED")
        ELSE IF paymentId \notin DOMAIN S.payments THEN Throw(S, "PAYMENT_NOT_FOUND")
        ELSE IF S.payments[paymentId].schoolId # schoolId THEN Throw(S, "PAYMENT_ACCESS_DENIED")
        ELSE IF S.payments[paymentId].orderId # orderId THEN Throw(S, "PAYMENT_ORDER_MISMATCH")
        ELSE
        LET applied == applyResult(S, schoolId, orderId, paymentId, eventId, result)
        IN
        \* JSON.parse(stableStringify(payload)) runs after the effect is applied
        IF JsonParseError(stableStringify(payload)) # ""
        THEN Throw([applied EXCEPT !.webhookEvents =
                        Put(@, eventId, [id |-> eventId, provider |-> prov, schoolId |-> schoolId,
                                         orderId |-> orderId, paymentId |-> paymentId])],
                   "SyntaxError")
        ELSE
        LET snapshot == [ok |-> TRUE, provider |-> prov, eventId |-> eventId,
                         schoolId |-> schoolId, orderId |-> orderId, paymentId |-> paymentId,
                         orderStatus |-> applied.orders[orderId].status]
            evt == [id |-> eventId, provider |-> prov, schoolId |-> schoolId,
                    orderId |-> orderId, paymentId |-> paymentId,
                    payload |-> JsonParse(stableStringify(payload)),
                    signature |-> signature, resultSnapshot |-> snapshot]
            S3 == [applied EXCEPT !.webhookEvents = Put(@, eventId, evt)]
        IN  Ok(auditLog(S3, schoolId, "WEBHOOK_RECEIVED", <<eventId, orderId, result>>), snapshot)

receiveWebhook(S, provider, payload, signature) ==
    LET prov == ToUpperCase(Trim(IF provider # "" THEN provider
                                 ELSE Field(payload, "provider", "")))
        eventId == Field(payload, "eventId", 0)
        schoolId == Field(payload, "schoolId", 0)
        orderId == Field(payload, "orderId", 0)
        paymentId == Field(payload, "paymentId", 0)
        result == ToUpperCase(Trim(Field(payload, "result", "")))
    IN  IF prov # "DEMO" THEN Throw(S, "WEBHOOK_PROVIDER_UNSUPPORTED")
        ELSE IF eventId = 0 THEN Throw(S, "WEBHOOK_EVENT_ID_REQUIRED")
        ELSE IF webhookEventsHas(S, eventId) THEN Ok(S, storedSnapshot(S, eventId))
        ELSE IF schoolId = 0 \/ orderId = 0 \/ paymentId = 0
             THEN Throw(S, "WEBHOOK_PAYLOAD_INVALID")
        ELSE IF result \notin {"APPROVED", "DECLINED"} THEN Throw(S, "WEBHOOK_RESULT_INVALID")
        ELSE IF schoolId \notin DOMAIN S.gateway THEN Throw(S, "GATEWAY_NOT_CONFIGURED")
        ELSE IF signature # hmacSha256(S.gateway[schoolId].webhookSecret, stableStringify(payload))
             THEN Throw(S, "WEBHOOK_SIGNATURE_INVALID")
        ELSE IF orderId \notin DOMAIN S.orders THEN Throw(S, "ORDER_NOT_FOUND")
        ELSE IF S.orders[orderId].schoolId # schoolId THEN Throw(S, "ORDER_ACCESS_DENIED")
        ELSE IF paymentId \notin DOMAIN S.payments THEN Throw(S, "PAYMENT_NOT_FOUND")
        ELSE IF S.payments[paymentId].schoolId # schoolId THEN Throw(S, "PAYMENT_ACCESS_DENIED")
        ELSE IF S.payments[paymentId].orderId # orderId THEN Throw(S, "PAYMENT_ORDER_MISMATCH")
        ELSE
        LET applied == applyResult(S, schoolId, orderId, paymentId, eventId, result)
        IN
        \* JSON.parse(stableStringify(payload)) runs after the effect is applied
        IF JsonParseError(stableStringify(payload)) # "" THEN Throw(applied, "SyntaxError")
        ELSE
        LET snapshot == [ok |-> TRUE, provider |-> prov, eventId |-> eventId,
                         schoolId |-> schoolId, orderId |-> orderId, paymentId |-> paymentId,
                         orderStatus |-> applied.orders[orderId].status]
            evt == [id |-> eventId, provider |-> prov, schoolId |-> schoolId,
                    orderId |-> orderId, paymentId |-> paymentId,
                    payload |-> JsonParse(stableStringify(payload)),
                    signature |-> signature, resultSnapshot |-> snapshot]
            S3 == [applied EXCEPT !.webhookEvents = Put(@, eventId, evt)]
        IN  Ok(auditLog(S3, schoolId, "WEBHOOK_RECEIVED", <<eventId, orderId, result>>), snapshot)

\* ------------------------------------------------------------------ inputs
SchoolIds == (1..MaxSchools) \cup {NoSuchId}
CourseIds == (1..MaxCourses) \cup {NoSuchId}
OrderIds == (1..MaxOrders) \cup {NoSuchId}
NameInputs == {"Escola", " "}
SlugInputs == {"alpha", "ALPHA", "beta", "", "a b"}
StatusInputs == {"ACTIVE", "SUSPENDED", "DELETED"}
TitleInputs == {"Curso", " "}
PriceInputs == {199900, 0}
CurrencyInputs == {"", "REAIS"}
PromoInputs ==
    {None,
     Some([type |-> "CUPOM", value |-> 20000, untilIso |-> 1]),
     Some([type |-> "FIXED", value |-> 199900, untilIso |-> 1])}
AiInputsOk == [theme |-> "Node.js", audience |-> "iniciantes", level |-> "basico",
               hours |-> 10, language |-> "pt-BR"]
AiInputs ==
    {None, Some(AiInputsOk), Some([AiInputsOk EXCEPT !.hours = 41]),
     Some([AiInputsOk EXCEPT !.language = " "])}
LessonOk == [title |-> "Aula 1", externalUrl |-> "https://video.example/a1"]
ModuleOk == [title |-> "Modulo Unico", lessons |-> <<LessonOk>>]
StructureInputs ==
    {None,
     Some([modules |-> <<ModuleOk>>]),
     Some([modules |-> <<[title |-> "Editado", lessons |-> <<[title |-> "Aula 1"]>>]>>]),
     Some([modules |-> <<[title |-> "Editado", lessons |-> <<[title |-> SymbolTitle]>>]>>]),
     Some([modules |-> <<[ModuleOk EXCEPT !.title = " "]>>]),
     Some([modules |-> <<[ModuleOk EXCEPT !.lessons = <<LessonOk, [title |-> ""]>>]>>])}
EmailInputs == {"a@b.com", "A@B.COM", "sem-arroba"}
OutcomeInputs == {"APPROVED", "declined", "REFUNDED"}

DomainInputs ==
    {"cursos.alpha.com.br", "https://Cursos.Alpha.com.br:443/loja", "escola.beta.com",
     "loja.platform.local", "beta.platform.local", "localhost", " "}
HostInputs ==
    {"cursos.alpha.com.br", "Cursos.Alpha.com.br.", "escola.beta.com", "alpha.platform.local",
     "ALPHA.platform.local", "beta.platform.local", "loja.platform.local", ""}
TokenForms == {"exact", "padded", "upper"}
TokenInputs(S) ==
    {<<"exact", 0>>, <<"exact", NoSuchId>>}
    \cup (TokenForms \X {S.domains[i].verificationToken : i \in DOMAIN S.domains})

\* ------------------------------------------------------------------ behaviour
\* A caller makes one call at a time: the call runs to completion and leaves
\* its result in last, and Return is the caller taking the result.
\*   op, err, ret   the function called, the Error it threw ("" when none), its value
\*   known          a webhook delivery carried an event id already recorded
\*   tampered       the delivered payload is not the payload startDemoCheckout returned
\*   sig            "issued": the signature returned with it; "signed": computed with the
\*                  school's current secret; "bogus": neither
NoCall ==
    [op |-> "none", err |-> "", ret |-> None, known |-> FALSE, tampered |-> FALSE, sig |-> ""]

EmptyStore ==
    [schools |-> <<>>, domains |-> <<>>,
     domainIndex |-> [byCustomDomain |-> EmptyMap, bySubdomain |-> EmptyMap],
     gateway |-> EmptyMap, courses |-> <<>>, courseIndex |-> EmptyMap,
     orders |-> <<>>,
     orderIndex |-> [bySchool |-> EmptyMap, byBuyer |-> EmptyMap, byCourse |-> EmptyMap],
     payments |-> <<>>, webhookEvents |-> EmptyMap, enrollments |-> <<>>,
     enrollmentIndex |-> EmptyMap, audit |-> EmptyBag, rnd |-> 0]

\* The process starts at time 1 holding store S, no call made yet.
StartWith(S) ==
    /\ now = 1
    /\ schools = S.schools
    /\ domains = S.domains
    /\ domainIndex = S.domainIndex
    /\ gateway = S.gateway
    /\ courses = S.courses
    /\ courseIndex = S.courseIndex
    /\ orders = S.orders
    /\ orderIndex = S.orderIndex
    /\ payments = S.payments
    /\ webhookEvents = S.webhookEvents
    /\ enrollments = S.enrollments
    /\ enrollmentIndex = S.enrollmentIndex
    /\ audit = S.audit
    /\ rnd = S.rnd
    /\ sent = <<>>
    /\ last = NoCall

\* The store as module load leaves it: every Map empty.
Init == StartWith(EmptyStore)

\* seedDemo(): the store the servers' /demo/reset route builds.  Two schools;
\* alpha owns a verified custom domain, a published AI course and a published
\* IMPORT course whose 20% promo runs for one more day (one Tick).
SeedStructure ==
    Some([modules |-> <<[title |-> "Modulo Unico",
                         lessons |-> <<[title |-> "Aula 1", externalUrl |-> "https://video.example/a1"],
                                       [title |-> "Aula 2", externalUrl |-> "https://video.example/a2"]>>]>>])

seedDemo ==
    LET s1 == createSchool(EmptyStore, "Escola Alpha", "alpha")
        s2 == createSchool(s1.db, "Escola Beta", "beta")
        req == requestCustomDomain(s2.db, s1.ret.id, "cursos.alpha.com.br")
        ver == verifyCustomDomain(req.db, s1.ret.id, "cursos.alpha.com.br",
                                  <<"exact", req.ret.verificationToken>>)
        ai == createCourseAI(ver.db, s1.ret.id, "Node Essencial", 199900, "", None)
        a1 == aiGenerateStructure(ai.db, s1.ret.id, ai.ret.id, Some(AiInputsOk))
        a2 == approveCourseStructure(a1.db, s1.ret.id, ai.ret.id)
        a3 == aiGenerateFullCourse(a2.db, s1.ret.id, ai.ret.id)
        a4 == publishCourse(a3.db, s1.ret.id, ai.ret.id)
        imp == createCourseImport(a4.db, s1.ret.id, "Curso Importado (Video)", 99000, "",
                                  Some([type |-> "PERCENT", value |-> 20000, untilIso |-> now + 1]))
        i1 == setImportStructure(imp.db, s1.ret.id, imp.ret.id, SeedStructure)
        i2 == publishCourse(i1.db, s1.ret.id, imp.ret.id)
    IN  i2.db

InitSeeded == StartWith(seedDemo)

Idle == last = NoCall

\* The call returned or threw: the store is what it left, last is what the caller saw.
Commit(op, out, known, tampered, sig) ==
    /\ schools' = out.db.schools
    /\ domains' = out.db.domains
    /\ domainIndex' = out.db.domainIndex
    /\ gateway' = out.db.gateway
    /\ courses' = out.db.courses
    /\ courseIndex' = out.db.courseIndex
    /\ orders' = out.db.orders
    /\ orderIndex' = out.db.orderIndex
    /\ payments' = out.db.payments
    /\ webhookEvents' = out.db.webhookEvents
    /\ enrollments' = out.db.enrollments
    /\ enrollmentIndex' = out.db.enrollmentIndex
    /\ audit' = out.db.audit
    /\ rnd' = out.db.rnd
    /\ last' = [op |-> op, err |-> out.err, ret |-> out.ret, known |-> known,
                tampered |-> tampered, sig |-> sig]

Call(op, out) == Idle /\ Commit(op, out, FALSE, FALSE, "") /\ UNCHANGED <<now, sent>>

storeVars == <<schools, domains, domainIndex, gateway, courses, courseIndex, orders,
               orderIndex, payments, webhookEvents, enrollments, enrollmentIndex,
               audit, rnd>>

Return ==
    /\ ~Idle
    /\ last' = NoCall
    /\ UNCHANGED <<storeVars, now, sent>>

Tick ==
    /\ Idle
    /\ now < MaxTime
    /\ now' = now + 1
    /\ UNCHANGED <<storeVars, sent, last>>

CreateSchool ==
    \E name \in NameInputs, slug \in SlugInputs :
        LET out == createSchool(Store, name, slug)
        IN  /\ out.err = "" => Len(schools) < MaxSchools
            /\ Call("createSchool", out)

SetSchoolStatus ==
    \E schoolId \in SchoolIds, status \in StatusInputs :
        LET out == setSchoolStatus(Store, schoolId, status)
        IN  /\ out.err = "" => CountAudit(Store, "SCHOOL_STATUS_CHANGED") < MaxStatusChanges
            /\ Call("setSchoolStatus", out)

RotateWebhookSecret ==
    \E schoolId \in SchoolIds :
        LET out == rotateWebhookSecret(Store, schoolId)
        IN  /\ out.err = "" => CountAudit(Store, "GATEWAY_WEBHOOK_SECRET_ROTATED") < MaxRotations
            /\ Call("rotateWebhookSecret", out)

RequestCustomDomain ==
    \E schoolId \in SchoolIds, domain \in DomainInputs :
        LET out == requestCustomDomain(Store, schoolId, domain)
        IN  /\ out.err = "" => CountAudit(Store, "DOMAIN_CUSTOM_REQUESTED")
                                  + CountAudit(Store, "DOMAIN_CUSTOM_REREQUESTED") < MaxDomainRequests
            /\ Call("requestCustomDomain", out)

VerifyCustomDomain ==
    \E schoolId \in SchoolIds, domain \in DomainInputs, token \in TokenInputs(Store) :
        LET out == verifyCustomDomain(Store, schoolId, domain, token)
        IN  /\ out.err = "" => CountAudit(Store, "DOMAIN_CUSTOM_VERIFIED") < MaxVerifications
            /\ Call("verifyCustomDomain", out)

\* resolveSchoolByHost(host): reads the store, and returns the school or null.
ResolveSchoolByHost ==
    \E host \in HostInputs :
        Call("resolveSchoolByHost",
             Ok(Store, [host |-> host, school |-> resolveSchoolByHost(Store, host)]))

CreateCourseAI ==
    \E schoolId \in SchoolIds, title \in TitleInputs, price \in PriceInputs,
       currency \in CurrencyInputs, promo \in PromoInputs :
        LET out == createCourseAI(Store, schoolId, title, price, currency, promo)
        IN  /\ out.err = "" => Len(courses) < MaxCourses
            /\ Call("createCourseAI", out)

CreateCourseImport ==
    \E schoolId \in SchoolIds, title \in TitleInputs, price \in PriceInputs,
       currency \in CurrencyInputs, promo \in PromoInputs :
        LET out == createCourseImport(Store, schoolId, title, price, currency, promo)
        IN  /\ out.err = "" => Len(courses) < MaxCourses
            /\ Call("createCourseImport", out)

\* Structures generated, edited and set so far, the seeded ones included.
Revisions ==
    CountAudit(Store, "COURSE_STRUCTURE_GENERATED") + CountAudit(Store, "COURSE_STRUCTURE_EDITED")
        + CountAudit(Store, "COURSE_IMPORT_STRUCTURE_SET")

AiGenerateStructure ==
    \E schoolId \in SchoolIds, courseId \in CourseIds, inputs \in AiInputs :
        LET out == aiGenerateStructure(Store, schoolId, courseId, inputs)
        IN  /\ out.err = "" => Revisions < MaxRevisions
            /\ Call("aiGenerateStructure", out)

EditCourseStructure ==
    \E schoolId \in SchoolIds, courseId \in CourseIds, structure \in StructureInputs :
        LET out == editCourseStructure(Store, schoolId, courseId, structure)
        IN  /\ out.err = "" => Revisions < MaxRevisions
            /\ Call("editCourseStructure", out)

ApproveCourseStructure ==
    \E schoolId \in SchoolIds, courseId \in CourseIds :
        LET out == approveCourseStructure(Store, schoolId, courseId)
        IN  Call("approveCourseStructure", out)

AiGenerateFullCourse ==
    \E schoolId \in SchoolIds, courseId \in CourseIds :
        LET out == aiGenerateFullCourse(Store, schoolId, courseId)
        IN  Call("aiGenerateFullCourse", out)

SetImportStructure ==
    \E schoolId \in SchoolIds, courseId \in CourseIds, structure \in StructureInputs :
        LET out == setImportStructure(Store, schoolId, courseId, structure)
        IN  /\ out.err = "" => Revisions < MaxRevisions
            /\ Call("setImportStructure", out)

PublishCourse ==
    \E schoolId \in SchoolIds, courseId \in CourseIds :
        LET out == publishCourse(Store, schoolId, courseId)
        IN  Call("publishCourse", out)

CreateOrder ==
    \E schoolId \in SchoolIds, courseId \in CourseIds, buyerEmail \in EmailInputs :
        LET out == createOrder(Store, schoolId, courseId, buyerEmail)
        IN  /\ out.err = "" => Len(orders) < MaxOrders
            /\ Call("createOrder", out)

StartDemoCheckout ==
    \E schoolId \in SchoolIds, orderId \in OrderIds, outcome \in OutcomeInputs :
        LET out == startDemoCheckout(Store, schoolId, orderId, outcome)
        IN  /\ Idle
            /\ out.err = "" => Len(payments) < MaxPayments
            /\ Commit("startDemoCheckout", out, FALSE, FALSE, "")
            /\ sent' = IF out.err = "" THEN Append(sent, out.ret.webhook) ELSE sent
            /\ UNCHANGED now

\* ------------------------------------------------------------------ webhook senders
Without(p, k) == [x \in DOMAIN p \ {k} |-> p[x]]
Opposite(result) == IF result = "APPROVED" THEN "DECLINED" ELSE "APPROVED"
BogusSignature == hmacSha256(0, <<>>)

\* What a sender without the secret can make of the payload p that
\* startDemoCheckout returned: p with one member replaced, removed or added,
\* or no payload at all.
TamperedFrom(p) ==
    ({EmptyMap, Put(p, "extra", 1), Without(p, "ts"), Without(p, "result"),
      [p EXCEPT !.ts = p.ts + 1]}
     \cup {[p EXCEPT !.result = r] : r \in {"APPROVED", "DECLINED", "approved", "REFUNDED", ""}}
     \cup {[p EXCEPT !.provider = v] : v \in {"STRIPE", "demo", ""}}
     \cup {[p EXCEPT !.eventId = e] : e \in {0, NoSuchId} \cup DOMAIN sent}
     \cup {[p EXCEPT !.schoolId = s] : s \in {0, NoSuchId} \cup DOMAIN schools}
     \cup {[p EXCEPT !.orderId = o] : o \in {0, NoSuchId} \cup DOMAIN orders}
     \cup {[p EXCEPT !.paymentId = x] : x \in {0, NoSuchId} \cup DOMAIN payments})
    \ {p}

\* What a holder of a school's secret (getGatewayConfig returns it) can sign:
\* p with the opposite result, p with a member that is undefined, and p under
\* an event id of its own with the result, the school, the order or the
\* payment replaced.
ForgedFrom(p) ==
    ({[p EXCEPT !.result = Opposite(p.result)],
      Put(p, "extra", Undefined),
      [p EXCEPT !.eventId = NoSuchId],
      [p EXCEPT !.eventId = NoSuchId, !.result = Opposite(p.result)]}
     \cup {[p EXCEPT !.eventId = NoSuchId, !.schoolId = s] : s \in DOMAIN schools}
     \cup {[p EXCEPT !.eventId = NoSuchId, !.orderId = o] : o \in {NoSuchId} \cup DOMAIN orders}
     \cup {[p EXCEPT !.eventId = NoSuchId, !.paymentId = x] : x \in {NoSuchId} \cup DOMAIN payments})
    \ {p}

\* The provider, or the /buy route with auto=1, echoes a returned pair as it is;
\* nothing stops it from doing so again.
DeliverWebhook ==
    \E n \in DOMAIN sent :
        /\ Idle
        /\ Commit("receiveWebhook",
                  receiveWebhook(Store, "DEMO", sent[n].payload, sent[n].signature),
                  sent[n].payload.eventId \in DOMAIN webhookEvents, FALSE, "issued")
        /\ UNCHANGED <<now, sent>>

\* What reaches receiveWebhook from a sender without the secret, as
\* <<provider, payload, signature>>: a tampered payload under the signature
\* issued for p; p itself, p with another result and no payload under a
\* signature of the sender's making; p under another provider argument or none.
TamperedDeliveries(p, signature) ==
    {<<"DEMO", q, signature>> : q \in TamperedFrom(p)}
    \cup {<<"DEMO", q, BogusSignature>> : q \in {p, [p EXCEPT !.result = Opposite(p.result)], EmptyMap}}
    \cup {<<provider, q, signature>> :
             provider \in {"", "STRIPE"}, q \in {p, [p EXCEPT !.provider = "STRIPE"]}}

DeliverTampered ==
    \E n \in DOMAIN sent :
        \E d \in TamperedDeliveries(sent[n].payload, sent[n].signature) :
            /\ Idle
            /\ Commit("receiveWebhook", receiveWebhook(Store, d[1], d[2], d[3]),
                      Field(d[2], "eventId", 0) \in DOMAIN webhookEvents,
                      d[2] # sent[n].payload,
                      IF d[3] = BogusSignature THEN "bogus" ELSE "issued")
            /\ UNCHANGED <<now, sent>>

\* Payment results applied to orders so far.
Effects == CountAudit(Store, "PAYMENT_SUCCEEDED") + CountAudit(Store, "PAYMENT_FAILED")

DeliverForged ==
    \E n \in DOMAIN sent :
        \E payload \in ForgedFrom(sent[n].payload) :
            LET out == receiveWebhook(Store, "DEMO", payload,
                                      hmacSha256(gateway[payload.schoolId].webhookSecret,
                                                 stableStringify(payload)))
            IN  /\ Idle
                /\ payload.schoolId \in DOMAIN gateway
                /\ out.db # Store => Effects < MaxEffects
                /\ Commit("receiveWebhook", out,
                          payload.eventId \in DOMAIN webhookEvents, TRUE, "signed")
                /\ UNCHANGED <<now, sent>>

Next ==
    \/ Return
    \/ Tick
    \/ CreateSchool
    \/ SetSchoolStatus
    \/ RotateWebhookSecret
    \/ RequestCustomDomain
    \/ VerifyCustomDomain
    \/ ResolveSchoolByHost
    \/ CreateCourseAI
    \/ CreateCourseImport
    \/ AiGenerateStructure
    \/ EditCourseStructure
    \/ ApproveCourseStructure
    \/ AiGenerateFullCourse
    \/ SetImportStructure
    \/ PublishCourse
    \/ CreateOrder
    \/ StartDemoCheckout
    \/ DeliverWebhook
    \/ DeliverTampered
    \/ DeliverForged

\* Every exported operation, in any order, from the empty store.
Spec == Init /\ [][Next]_vars

\* The course pipeline over time, on the seeded store: its two published
\* courses and the courses created next to them.
NextCourses ==
    \/ Return
    \/ Tick
    \/ CreateCourseAI
    \/ CreateCourseImport
    \/ AiGenerateStructure
    \/ EditCourseStructure
    \/ ApproveCourseStructure
    \/ AiGenerateFullCourse
    \/ SetImportStructure
    \/ PublishCourse

SpecCourses == InitSeeded /\ [][NextCourses]_vars

\* Selling: orders, checkouts and webhook deliveries over the seeded store.
NextCommerce ==
    \/ Return
    \/ RotateWebhookSecret
    \/ CreateOrder
    \/ StartDemoCheckout
    \/ DeliverWebhook
    \/ DeliverTampered

SpecCommerce == InitSeeded /\ [][NextCommerce]_vars

\* Access over time: the honest flow of SpecCommerce while schools are
\* suspended, deleted and reactivated.
NextAccess ==
    \/ Return
    \/ SetSchoolStatus
    \/ RotateWebhookSecret
    \/ CreateOrder
    \/ StartDemoCheckout
    \/ DeliverWebhook

SpecAccess == InitSeeded /\ [][NextAccess]_vars

\* Selling: schools are suspended and reactivated, courses are created next
\* to the seeded ones and stay unpublished, and orders are placed.
NextOrders ==
    \/ Return
    \/ SetSchoolStatus
    \/ CreateCourseAI
    \/ CreateOrder

SpecOrders == InitSeeded /\ [][NextOrders]_vars


\* Buying while time passes: orders are placed, checked out and paid or
\* declined before and after the seeded promo runs out.
NextSnapshot ==
    \/ Return
    \/ Tick
    \/ CreateOrder
    \/ StartDemoCheckout
    \/ DeliverWebhook

SpecSnapshot == InitSeeded /\ [][NextSnapshot]_vars


\* Paying through the school's own integration: orders are placed and checked
\* out, and the webhooks that arrive are signed by a holder of the secret.
NextSigned ==
    \/ Return
    \/ CreateOrder
    \/ StartDemoCheckout
    \/ DeliverForged

SpecSigned == InitSeeded /\ [][NextSigned]_vars


\* Pricing on its own.  The prices, in thousandths: 199.90, 10.00, 0.01, 0.005,
\* 0.004 and 0.  The promos: none; 20%, 99% and 99.999% off until time 2;
\* 100% off; 5.00 and 9.996 off until time 2; 199.90 off; 20% off until a
\* string that is no date, and with no untilIso; a type that does not exist.
PricingPrices == {199900, 10000, 10, 5, 4, 0}
PricingPromos ==
    {None}
    \cup {Some([type |-> "PERCENT", value |-> v, untilIso |-> 2]) : v \in {20000, 99000, 99999, 100000}}
    \cup {Some([type |-> "FIXED", value |-> v, untilIso |-> 2]) : v \in {5000, 9996, 199900}}
    \cup {Some([type |-> "PERCENT", value |-> 20000, untilIso |-> u]) : u \in {-1, 0}}
    \cup {Some([type |-> "CUPOM", value |-> 20000, untilIso |-> 2])}

\* A caller holds a price and a promo to pass, at some time of the clock.
InitPricing ==
    /\ now \in 1..MaxTime
    /\ schools = <<>> /\ domains = <<>> /\ domainIndex = EmptyStore.domainIndex
    /\ gateway = EmptyMap /\ courses = <<>> /\ courseIndex = EmptyMap
    /\ orders = <<>> /\ orderIndex = EmptyStore.orderIndex
    /\ payments = <<>> /\ webhookEvents = EmptyMap
    /\ enrollments = <<>> /\ enrollmentIndex = EmptyMap
    /\ audit = EmptyBag /\ rnd = 0 /\ sent = <<>>
    /\ \E price \in PricingPrices, promo \in PricingPromos :
           last = [NoCall EXCEPT !.op = "pricing",
                                 !.ret = [price |-> price, currency |-> "BRL", promo |-> promo]]

\* normalizePricing({ price, currency, promo }) on what the caller holds.
NormalizePricing ==
    /\ last.op = "pricing"
    /\ LET err == normalizePricingError(last.ret.price, last.ret.currency, last.ret.promo)
       IN  last' = [NoCall EXCEPT
                       !.op = "normalizePricing", !.err = err,
                       !.ret = IF err # "" THEN None
                               ELSE normalizePricing(last.ret.price, last.ret.currency,
                                                     last.ret.promo)]
    /\ UNCHANGED <<storeVars, now, sent>>

\* getEffectivePrice(pricing) on the pricing normalizePricing returned.
GetEffectivePrice ==
    /\ last.op = "normalizePricing" /\ last.err = ""
    /\ last' = [NoCall EXCEPT
                    !.op = "getEffectivePrice",
                    !.ret = [pricing |-> last.ret, at |-> now,
                             price |-> getEffectivePrice(last.ret, now)]]
    /\ UNCHANGED <<storeVars, now, sent>>

NextPricing ==
    \/ NormalizePricing
    \/ GetEffectivePrice

SpecPricing == InitPricing /\ [][NextPricing]_vars


\* White-label hosts, from the empty store: schools are created and
\* suspended, custom domains are requested, requested again and verified,
\* and hosts are resolved.
NextDomains ==
    \/ Return
    \/ CreateSchool
    \/ SetSchoolStatus
    \/ RequestCustomDomain
    \/ VerifyCustomDomain
    \/ ResolveSchoolByHost

SpecDomains == Init /\ [][NextDomains]_vars


\* Two shops: the seeded store after the second school, too, has imported and
\* published a course.  Both schools sell, and the webhooks that arrive are
\* signed by a holder of the secret of the school they name.
InitTwoShops ==
    /\ now = 1
    /\ \E seeded \in {seedDemo} :
           \E imp \in {createCourseImport(seeded, 2, "Curso Beta", 49900, "", None)} :
               \E set \in {setImportStructure(imp.db, 2, imp.ret.id, SeedStructure)} :
                   \E pub \in {publishCourse(set.db, 2, imp.ret.id)} :
                       StartWith(pub.db)

NextTenants ==
    \/ Return
    \/ CreateOrder
    \/ StartDemoCheckout
    \/ DeliverForged

SpecTenants == InitTwoShops /\ [][NextTenants]_vars


\* ------------------------------------------------------------------ end-to-end scenario
\* One client walks the whole path from the empty store: each call follows the
\* return of the call before it and is given the ids the calls before returned
\* and inputs the operation accepts.  A call that throws ends the walk.
ScenarioNames == {"Escola Alpha", "Escola Beta"}
ScenarioSlugs == {"alpha", "ALPHA", "beta"}
ScenarioPrices == {199900, 99000, 49900}
ScenarioInputs == {Some(AiInputsOk), Some([AiInputsOk EXCEPT !.hours = 40])}
ScenarioEmails == {"a@b.com", "A@B.COM", "x@y.com"}

After(op) == last.op = op /\ last.err = ""

ScenarioStep(op, out) == Commit(op, out, FALSE, FALSE, "") /\ UNCHANGED <<now, sent>>

ScenarioCreateSchool ==
    /\ After("none")
    /\ \E name \in ScenarioNames, slug \in ScenarioSlugs :
           ScenarioStep("createSchool", createSchool(Store, name, slug))

ScenarioCreateCourseAI ==
    /\ After("createSchool")
    /\ \E price \in ScenarioPrices :
           ScenarioStep("createCourseAI",
                        createCourseAI(Store, last.ret.id, "Curso", price, "", None))

ScenarioGenerateStructure ==
    /\ After("createCourseAI")
    /\ \E inputs \in ScenarioInputs :
           ScenarioStep("aiGenerateStructure",
                        aiGenerateStructure(Store, last.ret.schoolId, last.ret.id, inputs))

ScenarioApprove ==
    /\ After("aiGenerateStructure")
    /\ ScenarioStep("approveCourseStructure",
                    approveCourseStructure(Store, last.ret.schoolId, last.ret.id))

ScenarioGenerateFull ==
    /\ After("approveCourseStructure")
    /\ ScenarioStep("aiGenerateFullCourse",
                    aiGenerateFullCourse(Store, last.ret.schoolId, last.ret.id))

ScenarioPublish ==
    /\ After("aiGenerateFullCourse")
    /\ ScenarioStep("publishCourse", publishCourse(Store, last.ret.schoolId, last.ret.id))

ScenarioCreateOrder ==
    /\ After("publishCourse")
    /\ \E buyerEmail \in ScenarioEmails :
           ScenarioStep("createOrder",
                        createOrder(Store, last.ret.schoolId, last.ret.id, buyerEmail))

ScenarioCheckout ==
    /\ After("createOrder")
    /\ LET out == startDemoCheckout(Store, last.ret.schoolId, last.ret.id, "APPROVED")
       IN  /\ Commit("startDemoCheckout", out, FALSE, FALSE, "")
           /\ sent' = IF out.err = "" THEN Append(sent, out.ret.webhook) ELSE sent
           /\ UNCHANGED now

ScenarioWebhook ==
    /\ After("startDemoCheckout")
    /\ Commit("receiveWebhook",
              receiveWebhook(Store, "DEMO", last.ret.webhook.payload, last.ret.webhook.signature),
              FALSE, FALSE, "issued")
    /\ UNCHANGED <<now, sent>>

NextScenario ==
    \/ ScenarioCreateSchool
    \/ ScenarioCreateCourseAI
    \/ ScenarioGenerateStructure
    \/ ScenarioApprove
    \/ ScenarioGenerateFull
    \/ ScenarioPublish
    \/ ScenarioCreateOrder
    \/ ScenarioCheckout
    \/ ScenarioWebhook

SpecScenario == Init /\ [][NextScenario]_vars

DemoDeliveries(n) ==
    {d \in TamperedDeliveries(sent[n].payload, sent[n].signature)
             \cup {<<"DEMO", sent[n].payload, sent[n].signature>>} : d[1] = "DEMO"}

\* C2: once an event id is recorded, every later call with provider DEMO and
\* that event id returns the stored snapshot and changes nothing, whatever the
\* rest of the payload and the signature are.
C2_ReplayReturnsStored ==
    \A n \in DOMAIN sent : \A d \in DemoDeliveries(n) :
        Field(d[2], "eventId", 0) \in DOMAIN webhookEvents
            => receiveWebhook(Store, d[1], d[2], d[3])
                   = Ok(Store, webhookEvents[Field(d[2], "eventId", 0)].resultSnapshot)

\* A replay with the result altered and a signature of the sender's making has
\* returned the stored snapshot, after the school's secret was rotated and
\* after another event changed the order's status.
C2_Witness ==
    /\ last.op = "receiveWebhook" /\ last.err = "" /\ last.known
    /\ last.tampered /\ last.sig = "bogus"
    /\ last.ret.orderStatus # orders[last.ret.orderId].status
    /\ sent[last.ret.eventId].signature
           # hmacSha256(gateway[last.ret.schoolId].webhookSecret,
                        stableStringify(sent[last.ret.eventId].payload))

\* ------------------------------------------------------------------ tampered deliveries
\* The first-time deliveries of a tampered payload: provider DEMO, the
\* signature issued for the untampered payload, an event id not recorded.
FirstTimeTampered(n) ==
    {q \in TamperedFrom(sent[n].payload) : Field(q, "eventId", 0) \notin DOMAIN webhookEvents}

\* C5 as stated: every first-time delivery of a tampered payload fails with
\* WEBHOOK_SIGNATURE_INVALID and leaves the stores unchanged.
C5_TamperedFailsSignature ==
    \A n \in DOMAIN sent : \A q \in FirstTimeTampered(n) :
        receiveWebhook(Store, "DEMO", q, sent[n].signature)
            = Throw(Store, "WEBHOOK_SIGNATURE_INVALID")

\* The check a tampered payload stops at.
TamperedError(q) ==
    IF Field(q, "eventId", 0) = 0 THEN "WEBHOOK_EVENT_ID_REQUIRED"
    ELSE IF 0 \in {Field(q, "schoolId", 0), Field(q, "orderId", 0), Field(q, "paymentId", 0)}
         THEN "WEBHOOK_PAYLOAD_INVALID"
    ELSE IF ToUpperCase(Trim(Field(q, "result", ""))) \notin {"APPROVED", "DECLINED"}
         THEN "WEBHOOK_RESULT_INVALID"
    ELSE IF q.schoolId \notin DOMAIN gateway THEN "GATEWAY_NOT_CONFIGURED"
    ELSE "WEBHOOK_SIGNATURE_INVALID"

\* C5, amended: every first-time delivery of a tampered payload fails and
\* leaves the stores unchanged; it fails with WEBHOOK_SIGNATURE_INVALID when
\* the tampered payload passes the checks made before the signature is looked
\* at, and with the error of the first of those checks it fails otherwise.
C5_TamperedFailsNamed ==
    \A n \in DOMAIN sent : \A q \in FirstTimeTampered(n) :
        receiveWebhook(Store, "DEMO", q, sent[n].signature) = Throw(Store, TamperedError(q))

\* A first-time delivery of a tampered payload under the issued signature was
\* refused for its signature.
C5_Witness ==
    /\ last.op = "receiveWebhook" /\ ~last.known
    /\ last.tampered /\ last.sig = "issued"
    /\ last.err = "WEBHOOK_SIGNATURE_INVALID"

\* ------------------------------------------------------------------ orders and enrollments
\* C3: every order is created PENDING and changes status at most once: an
\* order that is PAID or FAILED keeps that status in every later state.
C3_StatusChangesOnce ==
    [][/\ \A i \in DOMAIN orders' \ DOMAIN orders : orders'[i].status = "PENDING"
       /\ \A i \in DOMAIN orders :
              orders[i].status # "PENDING" => orders'[i].status = orders[i].status]_vars

\* C4: a first-time valid webhook with result APPROVED leaves the order PAID,
\* the payment SUCCEEDED and an enrollment under (schoolId, order.buyerEmail,
\* order.courseId); with result DECLINED it leaves the order FAILED, the
\* payment FAILED and the enrollments as they were.
C4_FirstTimeEffects ==
    [][(last'.op = "receiveWebhook" /\ last'.err = "" /\ ~last'.known)
       => LET r == last'.ret
              order == orders'[r.orderId]
              key == EnrollmentKey(r.schoolId, order.buyerEmail, order.courseId)
          IN  IF sent[r.eventId].payload.result = "APPROVED"
              THEN /\ order.status = "PAID" /\ r.orderStatus = "PAID"
                   /\ payments'[r.paymentId].status = "SUCCEEDED"
                   /\ key \in DOMAIN enrollmentIndex'
                   /\ enrollmentIndex'[key] \in DOMAIN enrollments'
                   /\ canAccessCourse(Store', r.schoolId, order.buyerEmail, order.courseId)
              ELSE /\ order.status = "FAILED" /\ r.orderStatus = "FAILED"
                   /\ payments'[r.paymentId].status = "FAILED"
                   /\ enrollments' = enrollments
                   /\ enrollmentIndex' = enrollmentIndex]_vars

\* A first-time DECLINED event has been applied after an APPROVED one was:
\* one payment SUCCEEDED, this one FAILED, one enrollment.
C4_Witness ==
    /\ last.op = "receiveWebhook" /\ last.err = "" /\ ~last.known
    /\ last.ret.orderStatus = "FAILED"
    /\ payments[last.ret.paymentId].status = "FAILED"
    /\ \E p \in DOMAIN payments : payments[p].status = "SUCCEEDED"
    /\ Len(enrollments) = 1

EnrollmentKeyOf(e) == EnrollmentKey(e.schoolId, e.buyerEmail, e.courseId)

\* C6: at most one enrollment exists per (schoolId, buyerEmail, courseId);
\* ensureEnrollment called with the key of an existing enrollment, for
\* whatever order, returns that enrollment and creates nothing; and an
\* enrollment, its id and its orderId, is never written again.
C6_OneEnrollmentPerKey ==
    /\ [](/\ \A i, j \in DOMAIN enrollments :
                EnrollmentKeyOf(enrollments[i]) = EnrollmentKeyOf(enrollments[j]) => i = j
          /\ \A key \in DOMAIN enrollmentIndex :
                /\ enrollmentIndex[key] \in DOMAIN enrollments
                /\ EnrollmentKeyOf(enrollments[enrollmentIndex[key]]) = key
                /\ \A orderId \in OrderIds :
                       ensureEnrollment(Store, key[1], key[2], key[3], orderId)
                           = Ok(Store, Some(enrollments[enrollmentIndex[key]])))
    /\ [][\A i \in DOMAIN enrollments : enrollments'[i] = enrollments[i]]_vars

\* A second order of the same buyer for the same course has been paid: the
\* one enrollment is still the one the first order created.
C6_Witness ==
    /\ last.op = "receiveWebhook" /\ last.err = "" /\ ~last.known
    /\ last.ret.orderStatus = "PAID"
    /\ Len(enrollments) = 1
    /\ enrollments[1].orderId # last.ret.orderId
    /\ orders[enrollments[1].orderId].status = "PAID"
    /\ EnrollmentKeyOf(orders[last.ret.orderId]) = EnrollmentKeyOf(enrollments[1])

\* C7: access is never revoked: once canAccessCourse is true for a school, a
\* buyer and a course it is true after every operation.
C7_AccessNeverRevoked ==
    [][\A schoolId \in SchoolIds, buyerEmail \in EmailInputs, courseId \in CourseIds :
           canAccessCourse(Store, schoolId, buyerEmail, courseId)
               => canAccessCourse(Store', schoolId, buyerEmail, courseId)]_vars

\* The buyer keeps access to the course of an order that a DECLINED event
\* has since marked FAILED, in a school since suspended whose secret was rotated.
C7_Witness ==
    \E i \in DOMAIN orders :
        /\ orders[i].status = "FAILED"
        /\ canAccessCourse(Store, orders[i].schoolId, orders[i].buyerEmail, orders[i].courseId)
        /\ schools[orders[i].schoolId].status = "SUSPENDED"
        /\ CountAudit(Store, "GATEWAY_WEBHOOK_SECRET_ROTATED") = 1

\* ------------------------------------------------------------------ scenario and course pipeline
\* C8: in the end-to-end scenario every call succeeds, and once the webhook
\* has been received the order is PAID and canAccessCourse is true for the
\* buyer, however the address was written, and the course.
C8_ScenarioSucceeds ==
    /\ last.err = ""
    /\ last.op = "receiveWebhook"
           => /\ last.ret.orderStatus = "PAID"
              /\ orders[last.ret.orderId].status = "PAID"
              /\ \A buyerEmail \in ScenarioEmails :
                     ToLowerCase(Trim(buyerEmail)) = orders[last.ret.orderId].buyerEmail
                         => canAccessCourse(Store, last.ret.schoolId, buyerEmail,
                                            orders[last.ret.orderId].courseId)

\* The last call of the scenario has returned.
C8_Witness ==
    /\ last.op = "receiveWebhook" /\ last.err = ""
    /\ Len(schools) = 1 /\ Len(courses) = 1 /\ Len(orders) = 1
    /\ courses[1].state = "PUBLISHED"
    /\ Len(enrollments) = 1

\* The listed edges, as <<course type, state before, state after, operation>>.
CourseEdges ==
    {<<"AI", "DRAFT", "DRAFTING_STRUCTURE", "aiGenerateStructure">>,
     <<"AI", "DRAFTING_STRUCTURE", "STRUCTURE_APPROVED", "approveCourseStructure">>,
     <<"AI", "STRUCTURE_APPROVED", "DRAFT_READY", "aiGenerateFullCourse">>,
     <<"AI", "DRAFT_READY", "PUBLISHED", "publishCourse">>,
     <<"IMPORT", "DRAFT", "DRAFT_READY", "setImportStructure">>,
     <<"IMPORT", "DRAFT_READY", "PUBLISHED", "publishCourse">>}

\* The call threw a named error and changed nothing.
Refused(out) == out.err # "" /\ out.ret = None /\ out.db = Store

\* C9: a course is created in DRAFT and its state changes only along the
\* listed edges, by the operation of the edge; and each of these operations,
\* called on a course in a state other than the one its edge starts from,
\* throws and changes nothing: publishCourse on a DRAFT course of an active
\* school, called by that school, throws COURSE_NOT_READY_TO_PUBLISH.
C9_CourseEdges ==
    /\ [][/\ \A i \in DOMAIN courses' \ DOMAIN courses : courses'[i].state = "DRAFT"
          /\ \A i \in DOMAIN courses :
                 courses'[i].state # courses[i].state
                     => <<courses[i].type, courses[i].state, courses'[i].state, last'.op>>
                            \in CourseEdges]_vars
    /\ [](\A schoolId \in SchoolIds, i \in DOMAIN courses :
              /\ courses[i].state # "DRAFT"
                     => /\ \A inputs \in AiInputs :
                               Refused(aiGenerateStructure(Store, schoolId, i, inputs))
                        /\ \A structure \in StructureInputs :
                               Refused(setImportStructure(Store, schoolId, i, structure))
              /\ courses[i].state # "DRAFTING_STRUCTURE"
                     => Refused(approveCourseStructure(Store, schoolId, i))
              /\ courses[i].state # "STRUCTURE_APPROVED"
                     => Refused(aiGenerateFullCourse(Store, schoolId, i))
              /\ courses[i].state # "DRAFT_READY"
                     => Refused(publishCourse(Store, schoolId, i))
              /\ (/\ courses[i].state = "DRAFT" /\ courses[i].schoolId = schoolId
                  /\ schools[schoolId].status = "ACTIVE")
                     => publishCourse(Store, schoolId, i).err = "COURSE_NOT_READY_TO_PUBLISH")

\* An AI course created next to the seeded ones had its structure edited, has
\* walked its four edges, and publishCourse called on a course again was refused.
C9_Witness ==
    /\ last.op = "publishCourse" /\ last.err = "COURSE_NOT_READY_TO_PUBLISH"
    /\ \E i \in DOMAIN courses :
           /\ i > 2 /\ courses[i].type = "AI" /\ courses[i].state = "PUBLISHED"
           /\ CountAudit(Store, "COURSE_STRUCTURE_EDITED") = 1

\* C10: a course has a publishedAt if and only if it is PUBLISHED, and no
\* operation changes the state or the publishedAt of a PUBLISHED course.
C10_PublishedTerminal ==
    /\ [](\A i \in DOMAIN courses :
              courses[i].publishedAt # 0 <=> courses[i].state = "PUBLISHED")
    /\ [][\A i \in DOMAIN courses :
              courses[i].state = "PUBLISHED"
                  => /\ courses'[i].state = "PUBLISHED"
                     /\ courses'[i].publishedAt = courses[i].publishedAt]_vars

\* A course was published here, later than the seeded ones; time has passed
\* since, and publishCourse called again was refused.
C10_Witness ==
    /\ last.op = "publishCourse" /\ last.err = "COURSE_NOT_READY_TO_PUBLISH"
    /\ \E i \in DOMAIN courses :
           /\ courses[i].state = "PUBLISHED"
           /\ courses[i].publishedAt > 1
           /\ courses[i].publishedAt < now


\* ------------------------------------------------------------------ structure lock
\* C11: editCourseStructure succeeds only on a course in DRAFTING_STRUCTURE,
\* and then stores the structure passed and leaves the state and every other
\* course as they were; on a course in any other state it throws and changes
\* nothing, with COURSE_STRUCTURE_NOT_EDITABLE when the caller is the active
\* school that owns the course; and once an AI course has left
\* DRAFTING_STRUCTURE no operation changes its stored structure.
C11_StructureLock ==
    /\ [][(last'.op = "editCourseStructure" /\ last'.err = "")
              => \E i \in DOMAIN courses :
                     /\ courses[i].state = "DRAFTING_STRUCTURE"
                     /\ last'.ret.id = i
                     /\ last'.ret.structure \in StructureInputs
                     /\ courses' = [courses EXCEPT ![i].structure = last'.ret.structure]]_vars
    /\ [][\A i \in DOMAIN courses :
              (courses[i].type = "AI" /\ courses[i].state \notin {"DRAFT", "DRAFTING_STRUCTURE"})
                  => courses'[i].structure = courses[i].structure]_vars
    /\ [](\A schoolId \in SchoolIds, i \in DOMAIN courses, structure \in StructureInputs :
              courses[i].state # "DRAFTING_STRUCTURE"
                  => /\ Refused(editCourseStructure(Store, schoolId, i, structure))
                     /\ (/\ courses[i].schoolId = schoolId
                         /\ schools[schoolId].status = "ACTIVE")
                            => editCourseStructure(Store, schoolId, i, structure).err
                                   = "COURSE_STRUCTURE_NOT_EDITABLE")

\* An AI course had its generated structure replaced by an edit, was approved
\* and generated in full, and an edit called after that was refused: the
\* course still holds the structure of the edit.
C11_Witness ==
    /\ last.op = "editCourseStructure" /\ last.err = "COURSE_STRUCTURE_NOT_EDITABLE"
    /\ CountAudit(Store, "COURSE_STRUCTURE_EDITED") = 1
    /\ \E i \in DOMAIN courses :
           /\ i > 2 /\ courses[i].type = "AI" /\ courses[i].state = "DRAFT_READY"
           /\ courses[i].structure \in StructureInputs


\* ------------------------------------------------------------------ orders
\* The error createOrder is to throw, "" when it is to succeed: the school
\* must exist and be ACTIVE, the course must exist, belong to the school and
\* be PUBLISHED, and the trimmed, lower-cased email must contain "@".
CreateOrderError(schoolId, courseId, buyerEmail) ==
    IF schoolId \notin DOMAIN schools THEN "SCHOOL_NOT_FOUND"
    ELSE IF schools[schoolId].status # "ACTIVE" THEN "SCHOOL_SUSPENDED"
    ELSE IF courseId \notin DOMAIN courses THEN "COURSE_NOT_FOUND"
    ELSE IF courses[courseId].schoolId # schoolId THEN "COURSE_ACCESS_DENIED"
    ELSE IF courses[courseId].state # "PUBLISHED" THEN "COURSE_NOT_FOR_SALE"
    ELSE IF buyerEmail \notin {"a@b.com", "A@B.COM"} THEN "BUYER_EMAIL_INVALID"
    ELSE ""

\* C12: createOrder succeeds exactly when the school is ACTIVE, the course is
\* the school's and PUBLISHED and the email contains "@"; it throws
\* SCHOOL_SUSPENDED, COURSE_ACCESS_DENIED, COURSE_NOT_FOR_SALE or
\* BUYER_EMAIL_INVALID for the first of these that fails (SCHOOL_NOT_FOUND and
\* COURSE_NOT_FOUND for an id that names nothing) and then changes nothing;
\* when it succeeds it adds one order, PENDING, with the email lower-cased,
\* and the order's id to the three order indexes.
C12_CreateOrderGuards ==
    \A schoolId \in SchoolIds, courseId \in CourseIds, buyerEmail \in EmailInputs :
        LET out == createOrder(Store, schoolId, courseId, buyerEmail)
            id == Len(orders) + 1
        IN  /\ out.err = CreateOrderError(schoolId, courseId, buyerEmail)
            /\ out.err # "" => out.db = Store /\ out.ret = None
            /\ out.err = ""
                   => /\ out.db.orders = Append(orders, out.ret)
                      /\ out.ret.id = id
                      /\ out.ret.status = "PENDING"
                      /\ out.ret.buyerEmail = "a@b.com"
                      /\ out.ret.schoolId = schoolId /\ out.ret.courseId = courseId
                      /\ id \in out.db.orderIndex.bySchool[schoolId]
                      /\ id \in out.db.orderIndex.byBuyer[<<schoolId, "a@b.com">>]
                      /\ id \in out.db.orderIndex.byCourse[<<schoolId, courseId>>]

\* An order was placed, and a later createOrder for a course that is not
\* published was refused: the one order is all there is.
C12_Witness ==
    /\ last.op = "createOrder" /\ last.err = "COURSE_NOT_FOR_SALE"
    /\ Len(orders) = 1 /\ orders[1].status = "PENDING"
    /\ orderIndex.bySchool[1] = {1}


\* C13: a new order carries the effective price and the currency its course
\* has at the time createOrder runs (for the seeded IMPORT course: 79.20
\* while the promo runs, 99.00 after), and no step changes the amount or the
\* currency of an order that exists.
C13_PriceSnapshot ==
    [][/\ \A i \in DOMAIN orders :
              /\ orders'[i].amount = orders[i].amount
              /\ orders'[i].currency = orders[i].currency
       /\ \A i \in DOMAIN orders' \ DOMAIN orders :
              LET pricing == courses[orders'[i].courseId].pricing
              IN  /\ orders'[i].amount = getEffectivePrice(pricing, now)
                  /\ orders'[i].currency = pricing.currency
                  /\ orders'[i].courseId = 2
                         => orders'[i].amount = IF now <= 2 THEN 7920 ELSE 9900]_vars

\* An order placed while the promo ran has been paid after the promo ran
\* out: it still holds the promo price, which is no longer its course's price.
C13_Witness ==
    /\ last.op = "receiveWebhook" /\ last.err = ""
    /\ \E i \in DOMAIN orders :
           /\ orders[i].status = "PAID"
           /\ orders[i].amount = 7920
           /\ getEffectivePrice(courses[orders[i].courseId].pricing, now) = 9900


\* ------------------------------------------------------------------ checkout
\* The event ids handed out or recorded so far.
UsedEventIds == DOMAIN webhookEvents \cup {sent[n].payload.eventId : n \in DOMAIN sent}

\* C14: startDemoCheckout succeeds only for an order that exists, is the
\* school's and is PENDING, with an outcome of APPROVED or DECLINED; it then
\* adds exactly one payment, INITIATED and of that order, returns a payload
\* for that order, payment and outcome under an event id not used before, and
\* leaves every order as it was.  When it throws it changes nothing:
\* ORDER_NOT_PENDING for the active owning school once the order is PAID or
\* FAILED, CHECKOUT_OUTCOME_INVALID for any other outcome on a PENDING order.
C14_CheckoutGuards ==
    \A schoolId \in SchoolIds, orderId \in OrderIds, outcome \in OutcomeInputs :
        LET out == startDemoCheckout(Store, schoolId, orderId, outcome)
            owned == /\ schoolId \in DOMAIN schools /\ schools[schoolId].status = "ACTIVE"
                     /\ orderId \in DOMAIN orders /\ orders[orderId].schoolId = schoolId
        IN  /\ out.err = ""
                   => /\ owned /\ orders[orderId].status = "PENDING"
                      /\ outcome \in {"APPROVED", "declined"}
                      /\ Len(out.db.payments) = Len(payments) + 1
                      /\ SubSeq(out.db.payments, 1, Len(payments)) = payments
                      /\ out.db.payments[Len(payments) + 1].status = "INITIATED"
                      /\ out.db.payments[Len(payments) + 1].orderId = orderId
                      /\ out.db.orders = orders
                      /\ out.ret.webhook.payload.eventId \notin UsedEventIds
                      /\ out.ret.webhook.payload.orderId = orderId
                      /\ out.ret.webhook.payload.paymentId = Len(payments) + 1
                      /\ out.ret.webhook.payload.result
                             = (IF outcome = "APPROVED" THEN "APPROVED" ELSE "DECLINED")
            /\ out.err # "" => out.db = Store /\ out.ret = None
            /\ (owned /\ orders[orderId].status # "PENDING") => out.err = "ORDER_NOT_PENDING"
            /\ (owned /\ orders[orderId].status = "PENDING" /\ outcome = "REFUNDED")
                   => out.err = "CHECKOUT_OUTCOME_INVALID"

\* A checkout started for an order that an earlier checkout's webhook had
\* already paid was refused: the one payment is all there is.
C14_Witness ==
    /\ last.op = "startDemoCheckout" /\ last.err = "ORDER_NOT_PENDING"
    /\ Len(payments) = 1 /\ payments[1].status = "SUCCEEDED"
    /\ orders[payments[1].orderId].status = "PAID"


\* ------------------------------------------------------------------ all or nothing
\* C15: a call that throws leaves the whole store, the indexes and the audit
\* log included, as it was before the call.
C15_NoPartialApplication ==
    [][last'.err # "" => storeVars' = storeVars]_vars


\* ------------------------------------------------------------------ pricing
\* C16: for every pricing normalizePricing accepts and every time, the
\* effective price is greater than 0 and not greater than the base price.
C16_EffectivePricePositive ==
    last.op = "getEffectivePrice"
        => /\ last.ret.price > 0
           /\ last.ret.price <= last.ret.pricing.price

\* The price a promo that is running is to give, in hundredths: the base
\* price less value percent, or less value, to the nearest hundredth.
Discounted(pricing, price) ==
    LET promo == pricing.promo[1]
    IN  IF promo.type = "PERCENT"
        THEN /\ 10000 * price - 5000 <= pricing.price * (10000 - promo.value)
             /\ pricing.price * (10000 - promo.value) < 10000 * price + 5000
        ELSE price = pricing.price - promo.value

\* C17: getEffectivePrice returns the base price when there is no promo or
\* the time is after untilIso, and the discounted price when the time is
\* untilIso or earlier: 199.90 at 20% off until time 2 is 159.92 at times 1
\* and 2 and 199.90 at time 3.  The call leaves the pricing record, and the
\* store, as they were.
C17_EffectivePrice ==
    /\ [](last.op = "getEffectivePrice"
              => LET pricing == last.ret.pricing
                     at == last.ret.at
                     price == last.ret.price
                 IN  /\ pricing.promo = None => price = pricing.price
                     /\ (pricing.promo # None /\ pricing.promo[1].untilIso > 0)
                            => IF at > pricing.promo[1].untilIso
                               THEN price = pricing.price
                               ELSE Discounted(pricing, price)
                     /\ (/\ pricing.price = 19990 /\ pricing.promo # None
                         /\ pricing.promo[1].type = "PERCENT"
                         /\ pricing.promo[1].value = 2000 /\ pricing.promo[1].untilIso = 2)
                            => price = IF at <= 2 THEN 15992 ELSE 19990)
    /\ [][last'.op = "getEffectivePrice"
              => last'.ret.pricing = last.ret /\ storeVars' = storeVars]_vars

\* 199.90 at 20% off until time 2 has been priced at time 2 exactly: 159.92.
C17_Witness ==
    /\ last.op = "getEffectivePrice"
    /\ last.ret.at = 2
    /\ last.ret.pricing.promo # None
    /\ last.ret.pricing.promo[1].untilIso = 2
    /\ last.ret.pricing.price = 19990
    /\ last.ret.price = 15992


\* ------------------------------------------------------------------ hosts
\* The domain records stored under the hostname h.
ConfigsOf(h) == {i \in DOMAIN domains : domains[i].domain = h}

\* C18: a host resolves only through a verified record of that hostname, and
\* to the school of that record: a host whose only records are custom and
\* unverified (or that has none) resolves to null; and the domain of a
\* verified custom record and its school's subdomain host both resolve to
\* that school.
C18_ResolveVerifiedOnly ==
    /\ \A host \in HostInputs :
           LET h == normalizeHost(host)
               r == resolveSchoolByHost(Store, host)
           IN  /\ r # None
                      => \E i \in ConfigsOf(h) :
                             domains[i].verified /\ r[1] = schools[domains[i].schoolId]
               /\ (\A i \in ConfigsOf(h) : domains[i].type = "custom" /\ ~domains[i].verified)
                      => r = None
    /\ \A i \in DOMAIN domains :
           (domains[i].type = "custom" /\ domains[i].verified)
               => LET school == schools[domains[i].schoolId]
                  IN  /\ resolveSchoolByHost(Store, domains[i].domain) = Some(school)
                      /\ resolveSchoolByHost(Store, SubdomainHost(school.slug)) = Some(school)

\* A custom domain was verified and then requested again, which unverifies
\* it: resolving it has returned null, with its record still in the index.
C18_Witness ==
    /\ last.op = "resolveSchoolByHost" /\ last.ret.school = None
    /\ CountAudit(Store, "DOMAIN_CUSTOM_VERIFIED") = 1
    /\ CountAudit(Store, "DOMAIN_CUSTOM_REREQUESTED") = 1
    /\ normalizeHost(last.ret.host) \in DOMAIN domainIndex.byCustomDomain
    /\ ~domains[domainIndex.byCustomDomain[normalizeHost(last.ret.host)]].verified

\* C19: every hostname belongs to at most one school: no two custom records
\* hold the same domain, whether of two schools or of one; no custom record
\* holds the subdomain host of a school or a name in the subdomain index; and
\* the custom index holds, for each custom domain, its one record.
C19_OneSchoolPerHost ==
    /\ \A i, j \in DOMAIN domains :
           (/\ domains[i].type = "custom" /\ domains[j].type = "custom"
            /\ domains[i].domain = domains[j].domain) => i = j
    /\ \A i, j \in DOMAIN domains :
           domains[i].domain = domains[j].domain => domains[i].schoolId = domains[j].schoolId
    /\ \A i \in DOMAIN domains :
           domains[i].type = "custom"
               => /\ \A s \in DOMAIN schools : domains[i].domain # SubdomainHost(schools[s].slug)
                  /\ domains[i].domain \notin DOMAIN domainIndex.bySubdomain
                  /\ domains[i].domain \in DOMAIN domainIndex.byCustomDomain
                  /\ domainIndex.byCustomDomain[domains[i].domain] = i
    /\ \A s, t \in DOMAIN schools :
           SubdomainHost(schools[s].slug) = SubdomainHost(schools[t].slug) => s = t

\* Two schools exist, a custom domain was requested twice and has one record,
\* and a request for a name under the platform's base domain was refused.
C19_Witness ==
    /\ last.op = "requestCustomDomain" /\ last.err = "CUSTOM_DOMAIN_NOT_ALLOWED"
    /\ Len(schools) = 2
    /\ CountAudit(Store, "DOMAIN_CUSTOM_REREQUESTED") = 1
    /\ Cardinality({i \in DOMAIN domains : domains[i].type = "custom"}) = 1

\* C20: requestCustomDomain by a school for a domain whose verified record is
\* another school's throws and changes nothing, with
\* CUSTOM_DOMAIN_ALREADY_IN_USE when the requesting school is ACTIVE: the
\* record keeps its owner, its verified flag and its token, and the domain
\* resolves to the owner as before.
C20_DomainInUse ==
    \A schoolId \in SchoolIds, domain \in DomainInputs, i \in DOMAIN domains :
        (/\ domains[i].type = "custom" /\ domains[i].verified
         /\ domains[i].domain = normalizeDomain(domain)
         /\ domains[i].schoolId # schoolId)
            => LET out == requestCustomDomain(Store, schoolId, domain)
               IN  /\ out.err # ""
                   /\ out.db.domains[i] = domains[i]
                   /\ out.db = Store
                   /\ resolveSchoolByHost(out.db, domains[i].domain)
                          = Some(schools[domains[i].schoolId])
                   /\ (schoolId \in DOMAIN schools /\ schools[schoolId].status = "ACTIVE")
                          => out.err = "CUSTOM_DOMAIN_ALREADY_IN_USE"

\* A school's request for a domain that another school holds verified was
\* refused, under a spelling with scheme, port and path or without.
C20_Witness ==
    /\ last.op = "requestCustomDomain" /\ last.err = "CUSTOM_DOMAIN_ALREADY_IN_USE"
    /\ Len(schools) = 2
    /\ \E i \in DOMAIN domains :
           /\ domains[i].type = "custom" /\ domains[i].verified
           /\ resolveSchoolByHost(Store, domains[i].domain) = Some(schools[domains[i].schoolId])

\* ------------------------------------------------------------------ domain tokens
\* C21: requestCustomDomain for a domain the same school has already requested
\* rewrites that record and adds none: the id, school and domain stay,
\* verified becomes false and the token is one no record held before, and the
\* index points at the record.  After it, verifyCustomDomain by that school
\* succeeds for the new token and for no other, and throws
\* CUSTOM_DOMAIN_TOKEN_INVALID for the token the record held before.
C21_RerequestRotates ==
    [][(/\ last'.op = "requestCustomDomain" /\ last'.err = ""
        /\ \E i \in DOMAIN domains :
               /\ domains[i].type = "custom"
               /\ domains[i].schoolId = last'.ret.schoolId
               /\ domains[i].domain = last'.ret.domain)
       => LET cfg == last'.ret
              i == cfg.id
          IN  /\ i \in DOMAIN domains
              /\ domains[i].type = "custom"
              /\ domains[i].schoolId = cfg.schoolId
              /\ domains[i].domain = cfg.domain
              /\ ~cfg.verified
              /\ domains' = [domains EXCEPT ![i].verified = FALSE,
                                            ![i].verificationToken = cfg.verificationToken]
              /\ domainIndex'.byCustomDomain[cfg.domain] = i
              /\ \A j \in DOMAIN domains : domains[j].verificationToken # cfg.verificationToken
              /\ \A token \in TokenInputs(Store) \cup TokenInputs(Store') :
                     LET out == verifyCustomDomain(Store', cfg.schoolId, cfg.domain, token)
                     IN  /\ out.err = "" <=> TrimToken(token) = <<"exact", cfg.verificationToken>>
                         /\ out.err = "" => out.db.domains[i].verified
                         /\ TrimToken(token) = <<"exact", domains[i].verificationToken>>
                                => out.err = "CUSTOM_DOMAIN_TOKEN_INVALID"]_vars

\* A domain was requested and verified, requested again, and verified again
\* with the token of the second request: one custom record, verified.
C21_Witness ==
    /\ last.op = "verifyCustomDomain" /\ last.err = ""
    /\ CountAudit(Store, "DOMAIN_CUSTOM_REREQUESTED") = 1
    /\ CountAudit(Store, "DOMAIN_CUSTOM_VERIFIED") = 2
    /\ Cardinality({i \in DOMAIN domains : domains[i].type = "custom"}) = 1
    /\ last.ret.verified

\* C22 as stated: once a custom domain is verified its record stays verified
\* and the domain resolves to its school after every step.
C22_VerifiedForever ==
    [][\A i \in DOMAIN domains :
           (domains[i].type = "custom" /\ domains[i].verified)
               => /\ domains'[i].verified
                  /\ resolveSchoolByHost(Store', domains[i].domain)
                         = Some(schools'[domains[i].schoolId])]_vars

\* C22, amended: a verified custom domain stays verified, and resolves to its
\* school, after every step but one: requestCustomDomain for that domain by
\* the school that holds it, which leaves the record unverified and the
\* domain resolving to null.
C22_VerifiedUntilRerequested ==
    [][\A i \in DOMAIN domains :
           (domains[i].type = "custom" /\ domains[i].verified)
               => IF last'.op = "requestCustomDomain" /\ last'.err = "" /\ last'.ret.id = i
                  THEN /\ last'.ret.schoolId = domains[i].schoolId
                       /\ ~domains'[i].verified
                       /\ resolveSchoolByHost(Store', domains[i].domain) = None
                  ELSE /\ domains'[i] = domains[i]
                       /\ resolveSchoolByHost(Store', domains[i].domain)
                              = Some(schools'[domains[i].schoolId])]_vars

\* A custom domain was verified, its school was suspended after that, and the
\* domain has been resolved: to that school.
C22_Witness ==
    /\ last.op = "resolveSchoolByHost" /\ last.ret.school # None
    /\ last.ret.school[1].status = "SUSPENDED"
    /\ normalizeHost(last.ret.host) \in DOMAIN domainIndex.byCustomDomain
    /\ domains[domainIndex.byCustomDomain[normalizeHost(last.ret.host)]].verified
    /\ domains[domainIndex.byCustomDomain[normalizeHost(last.ret.host)]].schoolId
           = last.ret.school[1].id

\* The custom record the index holds for the domain, 0 when it holds none.
RequestedRecord(domain) ==
    LET d == normalizeDomain(domain)
    IN  IF d \in DOMAIN domainIndex.byCustomDomain THEN domainIndex.byCustomDomain[d] ELSE 0

\* C23 as stated: verifyCustomDomain succeeds only when the token supplied is
\* the stored token exactly; called by an active school it throws
\* CUSTOM_DOMAIN_NOT_REQUESTED for a domain never requested,
\* CUSTOM_DOMAIN_OWNERSHIP_MISMATCH for a domain another school requested and
\* CUSTOM_DOMAIN_TOKEN_INVALID for a wrong token; and a call that throws
\* leaves every verified flag as it was.
C23_ExactToken ==
    \A schoolId \in SchoolIds, domain \in DomainInputs, token \in TokenInputs(Store) :
        LET out == verifyCustomDomain(Store, schoolId, domain, token)
            i == RequestedRecord(domain)
            active == schoolId \in DOMAIN schools /\ schools[schoolId].status = "ACTIVE"
        IN  /\ out.err = ""
                   => /\ i # 0 /\ token = <<"exact", domains[i].verificationToken>>
                      /\ out.db.domains = [domains EXCEPT ![i].verified = TRUE]
            /\ (active /\ i = 0) => out.err = "CUSTOM_DOMAIN_NOT_REQUESTED"
            /\ (active /\ i # 0 /\ domains[i].schoolId # schoolId)
                   => out.err = "CUSTOM_DOMAIN_OWNERSHIP_MISMATCH"
            /\ (active /\ i # 0 /\ domains[i].schoolId = schoolId
                /\ token # <<"exact", domains[i].verificationToken>>)
                   => out.err = "CUSTOM_DOMAIN_TOKEN_INVALID"
            /\ out.err # "" => out.db = Store

\* C23, amended: the token is compared after String(token).trim(), so the
\* stored token with white space around it verifies as the stored token does;
\* every other token, the stored one in another case included, throws
\* CUSTOM_DOMAIN_TOKEN_INVALID.  The rest is as stated.
C23_TrimmedToken ==
    \A schoolId \in SchoolIds, domain \in DomainInputs, token \in TokenInputs(Store) :
        LET out == verifyCustomDomain(Store, schoolId, domain, token)
            i == RequestedRecord(domain)
            active == schoolId \in DOMAIN schools /\ schools[schoolId].status = "ACTIVE"
        IN  /\ out.err = ""
                   <=> /\ active /\ i # 0 /\ domains[i].schoolId = schoolId
                       /\ token \in {"exact", "padded"} \X {domains[i].verificationToken}
            /\ out.err = "" => out.db.domains = [domains EXCEPT ![i].verified = TRUE]
            /\ (active /\ i = 0) => out.err = "CUSTOM_DOMAIN_NOT_REQUESTED"
            /\ (active /\ i # 0 /\ domains[i].schoolId # schoolId)
                   => out.err = "CUSTOM_DOMAIN_OWNERSHIP_MISMATCH"
            /\ (active /\ i # 0 /\ domains[i].schoolId = schoolId
                /\ token \notin {"exact", "padded"} \X {domains[i].verificationToken})
                   => out.err = "CUSTOM_DOMAIN_TOKEN_INVALID"
            /\ out.err # "" => out.db = Store

\* A verification with a wrong token was refused while the one custom record
\* was verified, and the record is verified still.
C23_Witness ==
    /\ last.op = "verifyCustomDomain" /\ last.err = "CUSTOM_DOMAIN_TOKEN_INVALID"
    /\ Cardinality({i \in DOMAIN domains : domains[i].type = "custom"}) = 1
    /\ \E i \in DOMAIN domains : domains[i].type = "custom" /\ domains[i].verified

\* ------------------------------------------------------------------ one effect per event
\* The number of times the effect of the event was applied: the
\* PAYMENT_SUCCEEDED and PAYMENT_FAILED entries logged under its id.
TimesApplied(eventId) ==
    BagCardinality([e \in {x \in BagToSet(audit) :
                              /\ x[1] \in {"PAYMENT_SUCCEEDED", "PAYMENT_FAILED"}
                              /\ x[3][3] = eventId} |-> audit[e]])

\* C24: of the deliveries that carry one event id, whatever their number and
\* order, at most one applies the effect: an event whose effect was applied
\* was applied once and is recorded, a recorded event is never written again,
\* and every delivery that returns, returns the snapshot recorded under its
\* event id.
C24_AppliedOncePerEvent ==
    /\ [](\A x \in BagToSet(audit) :
              x[1] \in {"PAYMENT_SUCCEEDED", "PAYMENT_FAILED"}
                  => /\ TimesApplied(x[3][3]) = 1
                     /\ x[3][3] \in DOMAIN webhookEvents)
    /\ [][/\ \A e \in DOMAIN webhookEvents :
                 e \in DOMAIN webhookEvents' /\ webhookEvents'[e] = webhookEvents[e]
          /\ (last'.op = "receiveWebhook" /\ last'.err = "")
                 => /\ last'.ret.eventId \in DOMAIN webhookEvents'
                    /\ last'.ret = webhookEvents'[last'.ret.eventId].resultSnapshot]_vars

\* ------------------------------------------------------------------ who writes an order's status
\* The call left every order that existed with the status it had.
StatusKept(out) ==
    /\ Len(out.db.orders) >= Len(orders)
    /\ \A i \in DOMAIN orders : out.db.orders[i].status = orders[i].status

\* C25: no operation other than receiveWebhook changes the status of an
\* order that exists, whatever it is called with; and the status of an order
\* changes only in a step in which receiveWebhook, given a payload that names
\* the order, has returned its snapshot.
C25_OnlyWebhookWritesStatus ==
    /\ [](/\ \A name \in NameInputs, slug \in SlugInputs : StatusKept(createSchool(Store, name, slug))
          /\ \A schoolId \in SchoolIds :
                 /\ StatusKept(rotateWebhookSecret(Store, schoolId))
                 /\ \A status \in StatusInputs : StatusKept(setSchoolStatus(Store, schoolId, status))
                 /\ \A domain \in DomainInputs :
                        /\ StatusKept(requestCustomDomain(Store, schoolId, domain))
                        /\ \A token \in TokenInputs(Store) :
                               StatusKept(verifyCustomDomain(Store, schoolId, domain, token))
                 /\ \A title \in TitleInputs, price \in PriceInputs, promo \in PromoInputs :
                        /\ StatusKept(createCourseAI(Store, schoolId, title, price, "", promo))
                        /\ StatusKept(createCourseImport(Store, schoolId, title, price, "", promo))
                 /\ \A courseId \in CourseIds :
                        /\ \A inputs \in AiInputs :
                               StatusKept(aiGenerateStructure(Store, schoolId, courseId, inputs))
                        /\ \A structure \in StructureInputs :
                               /\ StatusKept(editCourseStructure(Store, schoolId, courseId, structure))
                               /\ StatusKept(setImportStructure(Store, schoolId, courseId, structure))
                        /\ StatusKept(approveCourseStructure(Store, schoolId, courseId))
                        /\ StatusKept(aiGenerateFullCourse(Store, schoolId, courseId))
                        /\ StatusKept(publishCourse(Store, schoolId, courseId))
                        /\ \A buyerEmail \in EmailInputs :
                               StatusKept(createOrder(Store, schoolId, courseId, buyerEmail))
                 /\ \A orderId \in OrderIds, outcome \in OutcomeInputs :
                        StatusKept(startDemoCheckout(Store, schoolId, orderId, outcome)))
    /\ [][\A i \in DOMAIN orders :
              orders'[i].status # orders[i].status
                  => /\ last'.op = "receiveWebhook" /\ last'.err = ""
                     /\ last'.ret.orderId = i
                     /\ last'.ret.orderStatus = orders'[i].status]_vars

\* ------------------------------------------------------------------ payments
\* C26: a payment that is no longer INITIATED is SUCCEEDED exactly when its
\* order is PAID and FAILED exactly when its order is FAILED, also when the
\* order has more than one payment.
C26_PaymentMirrorsOrder ==
    \A p \in DOMAIN payments :
        payments[p].status # "INITIATED"
            => /\ payments[p].status = "SUCCEEDED" <=> orders[payments[p].orderId].status = "PAID"
               /\ payments[p].status = "FAILED" <=> orders[payments[p].orderId].status = "FAILED"

\* ------------------------------------------------------------------ tenant isolation of webhooks
\* A first-time payload naming a school, an order and a payment: its event id
\* is one no sender of the model uses, so it is never recorded.
PayloadFor(schoolId, orderId, paymentId, result) ==
    [provider |-> "DEMO", eventId |-> NoSuchId + 1, schoolId |-> schoolId, orderId |-> orderId,
     paymentId |-> paymentId, result |-> result, ts |-> now]

\* The error a correctly signed first-time webhook is to fail with, "" when
\* it is to be applied.
OwnershipError(schoolId, orderId, paymentId) ==
    IF orderId \notin DOMAIN orders THEN "ORDER_NOT_FOUND"
    ELSE IF orders[orderId].schoolId # schoolId THEN "ORDER_ACCESS_DENIED"
    ELSE IF paymentId \notin DOMAIN payments THEN "PAYMENT_NOT_FOUND"
    ELSE IF payments[paymentId].schoolId # schoolId THEN "PAYMENT_ACCESS_DENIED"
    ELSE IF payments[paymentId].orderId # orderId THEN "PAYMENT_ORDER_MISMATCH"
    ELSE ""

\* C27: a first-time webhook signed with the secret of the school it names
\* is applied exactly when its order and its payment exist, are that
\* school's, and the payment is of that order; otherwise it throws the named
\* error and changes nothing.  When it is applied, every order, payment,
\* enrollment and enrollment key of another school is left as it was.
C27_WebhookStaysInSchool ==
    \A schoolId \in DOMAIN gateway, orderId \in OrderIds,
       paymentId \in (1..MaxPayments) \cup {NoSuchId}, result \in {"APPROVED", "DECLINED"} :
        LET payload == PayloadFor(schoolId, orderId, paymentId, result)
            out == receiveWebhook(Store, "DEMO", payload,
                                  hmacSha256(gateway[schoolId].webhookSecret,
                                             stableStringify(payload)))
        IN  /\ out.err = OwnershipError(schoolId, orderId, paymentId)
            /\ out.err # "" => out.db = Store
            /\ out.err = ""
                   => /\ \A i \in DOMAIN orders :
                             (i # orderId \/ orders[i].schoolId # schoolId)
                                 => out.db.orders[i] = orders[i]
                      /\ \A i \in DOMAIN payments :
                             (i # paymentId \/ payments[i].schoolId # schoolId)
                                 => out.db.payments[i] = payments[i]
                      /\ \A i \in DOMAIN out.db.enrollments :
                             IF i \in DOMAIN enrollments
                             THEN out.db.enrollments[i] = enrollments[i]
                             ELSE out.db.enrollments[i].schoolId = schoolId
                      /\ \A key \in DOMAIN out.db.enrollmentIndex :
                             IF key \in DOMAIN enrollmentIndex
                             THEN out.db.enrollmentIndex[key] = enrollmentIndex[key]
                             ELSE key[1] = schoolId

\* Both schools have an order with a payment, and a webhook signed with one
\* school's secret that names the other school's payment was refused: both
\* orders are PENDING still.
C27_Witness ==
    /\ last.op = "receiveWebhook" /\ last.err = "PAYMENT_ACCESS_DENIED" /\ last.sig = "signed"
    /\ Len(orders) = 2 /\ orders[1].schoolId # orders[2].schoolId
    /\ Len(payments) = 2 /\ payments[1].orderId # payments[2].orderId
    /\ \A i \in DOMAIN orders : orders[i].status = "PENDING"

\* ------------------------------------------------------------------ schools
\* The subdomain records of the school.
SubdomainsOf(schoolId) ==
    {i \in DOMAIN domains : domains[i].type = "subdomain" /\ domains[i].schoolId = schoolId}

\* C28: no two schools have the same slug; a school is never removed and
\* keeps its id and slug; every school has exactly one subdomain record,
\* verified, whose domain is `slug.platform.local` and is indexed to the
\* school; and createSchool with a name and a slug that, trimmed and
\* lower-cased, some school has, throws SCHOOL_SLUG_ALREADY_EXISTS and
\* changes nothing.
C28_SchoolsAndSubdomains ==
    /\ [](/\ \A s, t \in DOMAIN schools : schools[s].slug = schools[t].slug => s = t
          /\ \A s \in DOMAIN schools :
                 /\ schools[s].id = s
                 /\ Cardinality(SubdomainsOf(s)) = 1
                 /\ \A i \in SubdomainsOf(s) :
                        /\ domains[i].verified
                        /\ domains[i].domain = SubdomainHost(schools[s].slug)
                        /\ domains[i].domain \in DOMAIN domainIndex.bySubdomain
                        /\ domainIndex.bySubdomain[domains[i].domain] = s
                 /\ s \in DOMAIN gateway
          /\ \A i \in DOMAIN domains :
                 domains[i].type = "subdomain" => domains[i].schoolId \in DOMAIN schools
          /\ \A name \in NameInputs, slug \in SlugInputs :
                 (/\ Trim(name) # ""
                  /\ \E s \in DOMAIN schools : schools[s].slug = ToLowerCase(Trim(slug)))
                     => createSchool(Store, name, slug)
                            = Throw(Store, "SCHOOL_SLUG_ALREADY_EXISTS"))
    /\ [][/\ \A s \in DOMAIN schools :
                 /\ s \in DOMAIN schools'
                 /\ schools'[s].id = schools[s].id
                 /\ schools'[s].slug = schools[s].slug
          /\ \A i \in DOMAIN domains :
                 domains[i].type = "subdomain" => domains'[i] = domains[i]]_vars

\* Two schools exist, and createSchool with the first school's slug in upper
\* case was refused: two schools, two subdomain records, two SCHOOL_CREATED
\* entries.
C28_Witness ==
    /\ last.op = "createSchool" /\ last.err = "SCHOOL_SLUG_ALREADY_EXISTS"
    /\ Len(schools) = 2
    /\ Cardinality({i \in DOMAIN domains : domains[i].type = "subdomain"}) = 2
    /\ CountAudit(Store, "SCHOOL_CREATED") = 2
    /\ DOMAIN gateway = {1, 2}

\* ------------------------------------------------------------------ audit log
\* The events the step has added to the log.
Logged == {e \in BagToSet(audit') : CopiesIn(e, audit') > CopiesIn(e, audit)}

\* C29: every event in the log is in the log after every step, as many times
\* and with the same content; a call that returns having changed the store
\* has logged at least one event, and every event it logged is of one school,
\* the school its result names; a webhook whose event id was already
\* recorded logs nothing; and an enrollment is logged only when one is
\* created, so a payment for a key that already has an enrollment logs no
\* ENROLLMENT_CREATED.
C29_AuditAppendOnly ==
    [][/\ \A e \in BagToSet(audit) : CopiesIn(e, audit') >= CopiesIn(e, audit)
       /\ (last'.err = "" /\ storeVars' # storeVars)
              => /\ Logged # {}
                 /\ \A e, f \in Logged : e[2] = f[2] /\ e[2] \in DOMAIN schools'
                 /\ "schoolId" \in DOMAIN last'.ret
                        => \A e \in Logged : e[2] = last'.ret.schoolId
       /\ (last'.op = "receiveWebhook" /\ last'.known) => audit' = audit
       /\ \A e \in Logged : e[1] = "ENROLLMENT_CREATED" => Len(enrollments') = Len(enrollments) + 1
       /\ Len(enrollments') = Len(enrollments)
              => \A e \in Logged : e[1] # "ENROLLMENT_CREATED"]_vars

\* A second order of a buyer for a course was paid after the first, and the
\* webhook of the first was delivered again: one ENROLLMENT_CREATED, two
\* PAYMENT_SUCCEEDED and two WEBHOOK_RECEIVED entries.
C29_Witness ==
    /\ last.op = "receiveWebhook" /\ last.err = "" /\ last.known
    /\ CountAudit(Store, "ENROLLMENT_CREATED") = 1
    /\ CountAudit(Store, "PAYMENT_SUCCEEDED") = 2
    /\ CountAudit(Store, "WEBHOOK_RECEIVED") = 2
    /\ Len(enrollments) = 1

\* ------------------------------------------------------------------ webhook events
\* C30: a webhook event is recorded in exactly the steps in which
\* receiveWebhook returns for an event id not recorded before, and is there
\* when the call has returned: under the payload's event id, with the payload
\* and the signature delivered and the snapshot returned, which shows the
\* status the call gave the order.  A recorded event is never removed and
\* never written again, whatever is delivered under its id afterwards.
C30_EventRecordedOnce ==
    [][/\ \A e \in DOMAIN webhookEvents :
              e \in DOMAIN webhookEvents' /\ webhookEvents'[e] = webhookEvents[e]
       /\ DOMAIN webhookEvents' # DOMAIN webhookEvents
              <=> (last'.op = "receiveWebhook" /\ last'.err = "" /\ ~last'.known)
       /\ (last'.op = "receiveWebhook" /\ last'.err = "" /\ ~last'.known)
              => LET e == last'.ret.eventId
                     evt == webhookEvents'[e]
                 IN  /\ DOMAIN webhookEvents' = DOMAIN webhookEvents \cup {e}
                     /\ evt.id = e /\ evt.payload.eventId = e
                     /\ evt.resultSnapshot = last'.ret
                     /\ evt.orderId = evt.payload.orderId
                     /\ evt.paymentId = evt.payload.paymentId
                     /\ evt.schoolId = evt.payload.schoolId
                     /\ orders'[evt.orderId].status = evt.resultSnapshot.orderStatus
                     /\ evt.signature = hmacSha256(gateway[evt.schoolId].webhookSecret,
                                                   stableStringify(evt.payload))
                     /\ ~last'.tampered
                            => /\ evt.payload = sent[e].payload
                               /\ evt.signature = sent[e].signature]_vars

\* An event was recorded, the school's secret was rotated, and a delivery
\* under the event's id with another payload and a signature of the sender's
\* making has returned: the record holds the payload and the signature
\* of the first delivery.
C30_Witness ==
    /\ last.op = "receiveWebhook" /\ last.err = "" /\ last.known /\ last.tampered
    /\ last.sig = "bogus"
    /\ CountAudit(Store, "GATEWAY_WEBHOOK_SECRET_ROTATED") = 1
    /\ webhookEvents[last.ret.eventId].payload = sent[last.ret.eventId].payload
    /\ webhookEvents[last.ret.eventId].signature = sent[last.ret.eventId].signature
    /\ webhookEvents[last.ret.eventId].resultSnapshot = last.ret

\* ------------------------------------------------------------------ course states
\* C31: between operations an IMPORT course is in DRAFT, DRAFT_READY or
\* PUBLISHED, and approveCourseStructure and editCourseStructure throw on
\* it whoever calls them with whatever structure; an AI course is in DRAFT,
\* DRAFTING_STRUCTURE, STRUCTURE_APPROVED, DRAFT_READY or PUBLISHED; no
\* course is in GENERATING_FULL once a call has returned or thrown.
C31_StateConfinement ==
    \A i \in DOMAIN courses :
        /\ courses[i].type = "IMPORT"
               => /\ courses[i].state \in {"DRAFT", "DRAFT_READY", "PUBLISHED"}
                  /\ \A schoolId \in SchoolIds :
                         /\ approveCourseStructure(Store, schoolId, i).err # ""
                         /\ \A structure \in StructureInputs :
                                editCourseStructure(Store, schoolId, i, structure).err # ""
        /\ courses[i].type = "AI"
               => courses[i].state \in {"DRAFT", "DRAFTING_STRUCTURE", "STRUCTURE_APPROVED",
                                        "DRAFT_READY", "PUBLISHED"}
        /\ courses[i].state # "GENERATING_FULL"

\* ------------------------------------------------------------------ suspension
\* A school is suspended and reactivated while it sells: the seeded store,
\* at most MaxSuspensions status changes.
SetSchoolStatusRepeatedly ==
    \E schoolId \in SchoolIds, status \in StatusInputs :
        LET out == setSchoolStatus(Store, schoolId, status)
        IN  /\ out.err = "" => CountAudit(Store, "SCHOOL_STATUS_CHANGED") < MaxSuspensions
            /\ Call("setSchoolStatus", out)

NextSuspension ==
    \/ Return
    \/ SetSchoolStatusRepeatedly
    \/ CreateOrder
    \/ StartDemoCheckout

SpecSuspension == InitSeeded /\ [][NextSuspension]_vars

\* The outcomes of the operations that start with assertSchoolActive, called
\* on store S for this school with the inputs of the model.
GatedCalls(S, schoolId) ==
    {createOrder(S, schoolId, c, e) : c \in CourseIds, e \in EmailInputs}
    \cup {startDemoCheckout(S, schoolId, o, oc) : o \in OrderIds, oc \in OutcomeInputs}
    \cup {createCourseAI(S, schoolId, "Curso", 199900, "", p) : p \in PromoInputs}
    \cup {createCourseImport(S, schoolId, t, 199900, "", None) : t \in TitleInputs}
    \cup {aiGenerateStructure(S, schoolId, c, i) : c \in CourseIds, i \in AiInputs}
    \cup {editCourseStructure(S, schoolId, c, st) : c \in CourseIds, st \in StructureInputs}
    \cup {approveCourseStructure(S, schoolId, c) : c \in CourseIds}
    \cup {aiGenerateFullCourse(S, schoolId, c) : c \in CourseIds}
    \cup {setImportStructure(S, schoolId, c, st) : c \in CourseIds, st \in StructureInputs}
    \cup {publishCourse(S, schoolId, c) : c \in CourseIds}
    \cup {requestCustomDomain(S, schoolId, d) : d \in DomainInputs}
    \cup {verifyCustomDomain(S, schoolId, d, t) : d \in DomainInputs, t \in TokenInputs(S)}
    \cup {rotateWebhookSecret(S, schoolId)}

\* C32: while a school is SUSPENDED every gated operation called for it
\* throws SCHOOL_SUSPENDED and changes nothing.  setSchoolStatus writes the
\* school's status and an audit entry and nothing else, so setting the
\* school ACTIVE again leaves every course, order, payment, enrollment and
\* domain as it was; after it no gated call throws SCHOOL_SUSPENDED: the
\* secret can be rotated, and a checkout can be started for every order of
\* the school that is PENDING.
C32_SuspendedRefusesAll ==
    /\ [](\A s \in DOMAIN schools :
              schools[s].status = "SUSPENDED"
                  => /\ \A out \in GatedCalls(Store, s) : out = Throw(Store, "SCHOOL_SUSPENDED")
                     /\ LET re == setSchoolStatus(Store, s, "ACTIVE")
                        IN  /\ re.err = ""
                            /\ \A out \in GatedCalls(re.db, s) : out.err # "SCHOOL_SUSPENDED"
                            /\ rotateWebhookSecret(re.db, s).err = ""
                            /\ \A o \in DOMAIN orders :
                                   (orders[o].schoolId = s /\ orders[o].status = "PENDING")
                                       => startDemoCheckout(re.db, s, o, "APPROVED").err = "")
    /\ [][(last'.op = "setSchoolStatus" /\ last'.err = "")
              => /\ \A s \in DOMAIN schools :
                        /\ schools'[s].status \in {schools[s].status, last'.ret.status}
                        /\ [schools'[s] EXCEPT !.status = schools[s].status] = schools[s]
                 /\ DOMAIN schools' = DOMAIN schools
                 /\ <<domains, domainIndex, gateway, courses, courseIndex, orders, orderIndex,
                      payments, webhookEvents, enrollments, enrollmentIndex>>'
                        = <<domains, domainIndex, gateway, courses, courseIndex, orders,
                            orderIndex, payments, webhookEvents, enrollments, enrollmentIndex>>]_vars

\* A school that sold, was suspended and was set ACTIVE again has taken a
\* second order, next to the one it took before.
C32_Witness ==
    /\ last.op = "createOrder" /\ last.err = ""
    /\ Len(orders) = 2 /\ orders[1].schoolId = last.ret.schoolId
    /\ <<"SCHOOL_STATUS_CHANGED", last.ret.schoolId, <<"SUSPENDED">>>> \in BagToSet(audit)
    /\ <<"SCHOOL_STATUS_CHANGED", last.ret.schoolId, <<"ACTIVE">>>> \in BagToSet(audit)

\* ------------------------------------------------------------------ webhooks of a suspended school
\* C33: receiveWebhook does not ask whether the school is active.  A pair
\* startDemoCheckout returned, not recorded yet and delivered while the
\* school is SUSPENDED, has the outcome it would have with the school
\* ACTIVE: the same error or snapshot and the same store.  If its signature
\* still verifies it is applied: the order becomes PAID and the buyer has
\* access on APPROVED, and the order becomes FAILED on DECLINED.
C33_WebhookIgnoresSuspension ==
    \A n \in DOMAIN sent :
        LET p == sent[n].payload
            s == p.schoolId
            asActive == [Store EXCEPT !.schools[s].status = "ACTIVE"]
            out == receiveWebhook(Store, "DEMO", p, sent[n].signature)
            ref == receiveWebhook(asActive, "DEMO", p, sent[n].signature)
        IN  (schools[s].status = "SUSPENDED" /\ p.eventId \notin DOMAIN webhookEvents)
                => /\ out.err = ref.err /\ out.ret = ref.ret
                   /\ out.db = [ref.db EXCEPT !.schools[s].status = "SUSPENDED"]
                   /\ sent[n].signature = hmacSha256(gateway[s].webhookSecret, stableStringify(p))
                          => /\ out.err = ""
                             /\ out.ret.orderStatus = out.db.orders[p.orderId].status
                             /\ p.result = "APPROVED"
                                    => /\ out.db.orders[p.orderId].status = "PAID"
                                       /\ out.db.payments[p.paymentId].status = "SUCCEEDED"
                                       /\ canAccessCourse(out.db, s, orders[p.orderId].buyerEmail,
                                                          orders[p.orderId].courseId)
                             /\ p.result = "DECLINED"
                                    => /\ out.db.orders[p.orderId].status = "FAILED"
                                       /\ out.db.payments[p.paymentId].status = "FAILED"

\* The school was suspended after the checkout; the returned pair, delivered
\* for the first time, has paid the order and enrolled the buyer.
C33_Witness ==
    /\ last.op = "receiveWebhook" /\ last.err = "" /\ ~last.known
    /\ schools[last.ret.schoolId].status = "SUSPENDED"
    /\ last.ret.orderStatus = "PAID"
    /\ orders[last.ret.orderId].status = "PAID"
    /\ canAccessCourse(Store, last.ret.schoolId, orders[last.ret.orderId].buyerEmail,
                       orders[last.ret.orderId].courseId)

\* ------------------------------------------------------------------ enrollments and their orders
\* C34: every enrollment names an order that exists, is of the enrollment's
\* school, buyer and course, and is PAID; so a buyer has access to a course
\* only while the order that granted it is PAID.
C34_EnrollmentOrderPaid ==
    /\ \A e \in DOMAIN enrollments :
           /\ enrollments[e].orderId \in DOMAIN orders
           /\ orders[enrollments[e].orderId].schoolId = enrollments[e].schoolId
           /\ orders[enrollments[e].orderId].buyerEmail = enrollments[e].buyerEmail
           /\ orders[enrollments[e].orderId].courseId = enrollments[e].courseId
           /\ orders[enrollments[e].orderId].status = "PAID"
    /\ \A s \in DOMAIN schools, c \in DOMAIN courses, email \in EmailInputs :
           canAccessCourse(Store, s, email, c)
               => \E e \in DOMAIN enrollments :
                      /\ EnrollmentKeyOf(enrollments[e]) = EnrollmentKey(s, ToLowerCase(Trim(email)), c)
                      /\ orders[enrollments[e].orderId].status = "PAID"

\* ------------------------------------------------------------------ charges
\* The payments of an order that were charged.
Succeeded(orderId) ==
    {p \in DOMAIN payments : payments[p].orderId = orderId /\ payments[p].status = "SUCCEEDED"}

\* C35: no order has more than one payment that SUCCEEDED, however many
\* checkouts were started for it while it was PENDING and whichever of the
\* returned webhooks are delivered.
C35_ChargedOnce ==
    \A o \in DOMAIN orders : Cardinality(Succeeded(o)) <= 1

\* ------------------------------------------------------------------ failed deliveries
\* The deliveries recorded under this event id, and the effects applied
\* under it, by the audit log a.
ReceivedIn(a, eventId) ==
    BagCardinality([x \in {y \in BagToSet(a) :
                              y[1] = "WEBHOOK_RECEIVED" /\ y[3][1] = eventId} |-> a[x]])

AppliedIn(a, eventId) ==
    BagCardinality([x \in {y \in BagToSet(a) :
                              /\ y[1] \in {"PAYMENT_SUCCEEDED", "PAYMENT_FAILED"}
                              /\ y[3][3] = eventId} |-> a[x]])

\* C36: a delivery that throws records no event, whatever it threw and
\* whatever it did before it threw; so the recorded events are those of
\* deliveries that returned, one each, and a delivery that returns under an
\* event id that is not recorded, an earlier delivery under that id having
\* failed or not, is applied and recorded: the order has the status of the
\* snapshot returned and the log has the entry of the effect.
C36_FailedNotRecorded ==
    /\ [][(last'.op = "receiveWebhook" /\ last'.err # "")
              => webhookEvents' = webhookEvents]_vars
    /\ [](\A e \in DOMAIN webhookEvents : ReceivedIn(audit, e) = 1)
    /\ [][(last'.op = "receiveWebhook" /\ last'.err = "" /\ ~last'.known)
              => /\ last'.ret.eventId \in DOMAIN webhookEvents' \ DOMAIN webhookEvents
                 /\ orders'[last'.ret.orderId].status = last'.ret.orderStatus
                 /\ last'.ret.orderStatus \in {"PAID", "FAILED"}
                 /\ ReceivedIn(audit', last'.ret.eventId) = 1
                 /\ AppliedIn(audit', last'.ret.eventId)
                        = AppliedIn(audit, last'.ret.eventId) + 1]_vars

\* A delivery under an event id has applied its effect and thrown; the next
\* delivery under that id was applied too, and has returned.
C36_Witness ==
    /\ last.op = "receiveWebhook" /\ last.err = "" /\ ~last.known
    /\ AppliedIn(audit, last.ret.eventId) = 2
    /\ ReceivedIn(audit, last.ret.eventId) = 1
    /\ last.ret.eventId \in DOMAIN webhookEvents

\* ------------------------------------------------------------------ rotation and webhooks in flight
\* What the delivery of the n-th returned pair does to store S when the
\* school's secret is no longer the one the pair was signed with: thrown out
\* for its signature if its event is not recorded, answered from the record
\* if it is; the store is left as it is either way.
AfterRotation(S, n) ==
    LET out == receiveWebhook(S, "DEMO", sent[n].payload, sent[n].signature)
    IN  IF sent[n].payload.eventId \in DOMAIN S.webhookEvents
        THEN out = Ok(S, S.webhookEvents[sent[n].payload.eventId].resultSnapshot)
        ELSE out = Throw(S, "WEBHOOK_SIGNATURE_INVALID")

\* C37: rotateWebhookSecret leaves no returned pair of the school it was
\* called for (the one its audit entry names) signed with the current secret.  From the rotation on, a pair returned before it
\* and not recorded fails with WEBHOOK_SIGNATURE_INVALID when it is
\* delivered and changes nothing, so its order stays as it is, and a pair
\* recorded before it is answered with its stored snapshot.
C37_RotationInvalidatesInFlight ==
    /\ [][(last'.op = "rotateWebhookSecret" /\ last'.err = "")
              => \A n \in DOMAIN sent :
                     CopiesIn(<<"GATEWAY_WEBHOOK_SECRET_ROTATED", sent[n].payload.schoolId, <<>>>>, audit')
                         > CopiesIn(<<"GATEWAY_WEBHOOK_SECRET_ROTATED", sent[n].payload.schoolId, <<>>>>, audit)
                         => /\ sent[n].signature
                                   # hmacSha256(gateway'[sent[n].payload.schoolId].webhookSecret,
                                                stableStringify(sent[n].payload))
                            /\ AfterRotation(Store', n)]_vars
    /\ [](\A n \in DOMAIN sent :
              sent[n].signature # hmacSha256(gateway[sent[n].payload.schoolId].webhookSecret,
                                             stableStringify(sent[n].payload))
                  => AfterRotation(Store, n))

\* The pair of the only checkout, delivered as returned after the rotation,
\* was thrown out for its signature, and the order is PENDING.
C37_Witness ==
    /\ last.op = "receiveWebhook" /\ last.err = "WEBHOOK_SIGNATURE_INVALID"
    /\ ~last.tampered /\ last.sig = "issued"
    /\ CountAudit(Store, "GATEWAY_WEBHOOK_SECRET_ROTATED") = 1
    /\ Len(sent) = 1 /\ webhookEvents = EmptyMap
    /\ orders[sent[1].payload.orderId].status = "PENDING"

\* ------------------------------------------------------------------ requested domains
\* C38: a custom domain record, verified or not, keeps its school and its
\* domain for good and the index keeps pointing at it; while it is there,
\* requestCustomDomain for its domain, however spelled, by any other school
\* throws and changes nothing, and throws CUSTOM_DOMAIN_ALREADY_IN_USE if
\* that school is active.
C38_RequestedDomainHeld ==
    /\ [](\A i \in DOMAIN domains :
              domains[i].type = "custom"
                  => /\ domains[i].domain \in DOMAIN domainIndex.byCustomDomain
                     /\ domainIndex.byCustomDomain[domains[i].domain] = i
                     /\ \A schoolId \in SchoolIds \ {domains[i].schoolId}, domain \in DomainInputs :
                            normalizeDomain(domain) = domains[i].domain
                                => LET out == requestCustomDomain(Store, schoolId, domain)
                                   IN  /\ out.err # "" /\ out.db = Store
                                       /\ (schoolId \in DOMAIN schools
                                           /\ schools[schoolId].status = "ACTIVE")
                                              => out.err = "CUSTOM_DOMAIN_ALREADY_IN_USE")
    /\ [][\A i \in DOMAIN domains :
              /\ i \in DOMAIN domains'
              /\ domains'[i].type = domains[i].type
              /\ domains'[i].schoolId = domains[i].schoolId
              /\ domains'[i].domain = domains[i].domain]_vars

\* No domain was ever verified; the second school's request for the domain
\* the first requested was refused.
C38_Witness ==
    /\ last.op = "requestCustomDomain" /\ last.err = "CUSTOM_DOMAIN_ALREADY_IN_USE"
    /\ CountAudit(Store, "DOMAIN_CUSTOM_VERIFIED") = 0
    /\ Cardinality({i \in DOMAIN domains : domains[i].type = "custom"}) = 1
    /\ \A i \in DOMAIN domains : domains[i].type = "custom" => ~domains[i].verified

\* ------------------------------------------------------------------ references
\* C39: every order names a course of its school that is PUBLISHED; every
\* payment names an order of its school; every recorded webhook event names
\* an order and a payment of its school, the payment being one of that order.
C39_ReferentialIntegrity ==
    /\ \A o \in DOMAIN orders :
           /\ orders[o].courseId \in DOMAIN courses
           /\ courses[orders[o].courseId].schoolId = orders[o].schoolId
           /\ courses[orders[o].courseId].state = "PUBLISHED"
    /\ \A p \in DOMAIN payments :
           /\ payments[p].orderId \in DOMAIN orders
           /\ orders[payments[p].orderId].schoolId = payments[p].schoolId
    /\ \A e \in DOMAIN webhookEvents :
           /\ webhookEvents[e].orderId \in DOMAIN orders
           /\ webhookEvents[e].paymentId \in DOMAIN payments
           /\ orders[webhookEvents[e].orderId].schoolId = webhookEvents[e].schoolId
           /\ payments[webhookEvents[e].paymentId].schoolId = webhookEvents[e].schoolId
           /\ payments[webhookEvents[e].paymentId].orderId = webhookEvents[e].orderId

\* Two schools have an order and a payment each, an event is recorded, and a
\* delivery signed by one school that named the other's payment was refused.
C39_Witness ==
    /\ last.op = "receiveWebhook" /\ last.err = "PAYMENT_ACCESS_DENIED"
    /\ Len(orders) = 2 /\ orders[1].schoolId # orders[2].schoolId
    /\ Len(payments) = 2 /\ payments[1].schoolId # payments[2].schoolId
    /\ webhookEvents # EmptyMap

\* ------------------------------------------------------------------ course content
\* C40: a course in DRAFT_READY or PUBLISHED has a structure with at least
\* one module; an AI course has a fullContent exactly when it is in
\* DRAFT_READY or PUBLISHED, and that fullContent has one module for each
\* module of the structure, under its title; an IMPORT course has none.
C40_ContentInvariants ==
    \A i \in DOMAIN courses :
        /\ courses[i].state \in {"DRAFT_READY", "PUBLISHED"}
               => /\ courses[i].structure # None
                  /\ Len(courses[i].structure[1].modules) >= 1
        /\ courses[i].type = "AI"
               => /\ courses[i].fullContent # None
                         <=> courses[i].state \in {"DRAFT_READY", "PUBLISHED"}
                  /\ courses[i].fullContent # None
                         => /\ Len(courses[i].fullContent[1].modules)
                                   = Len(courses[i].structure[1].modules)
                            /\ \A mi \in DOMAIN courses[i].fullContent[1].modules :
                                   courses[i].fullContent[1].modules[mi].title
                                       = courses[i].structure[1].modules[mi].title
        /\ courses[i].type = "IMPORT" => courses[i].fullContent = None

\* Next to the seeded AI course of three modules, an AI course whose
\* structure was edited down to one module has been generated in full, and
\* the seeded IMPORT course is published without any content generated.
C40_Witness ==
    /\ last.op = "aiGenerateFullCourse" /\ last.err = ""
    /\ courses[last.ret.id].state = "DRAFT_READY"
    /\ Len(courses[last.ret.id].fullContent[1].modules) = 1
    /\ Len(courses[1].fullContent[1].modules) = 3
    /\ courses[2].type = "IMPORT" /\ courses[2].state = "PUBLISHED"

=============================================================================
